---- MODULE Spec2Model ----
(***************************************************************************)
(* Production document assembly pipeline of ProdPlanGenerator.py:          *)
(* Worker.run, Worker._process_product, Worker.print_conditional_sheet     *)
(* and Worker.find_last_numeric_row, with the spreadsheet oracle, the      *)
(* order source, the source folder of order PDFs, the drawing store and    *)
(* the output folders as the environment.                                  *)
(*                                                                         *)
(* Text is a sequence of one-character strings, so that the string         *)
(* operations of the source (lower, strip, splitext, re.sub, re.findall,   *)
(* sorted) are computed and not assumed.  The Persian words of the source  *)
(* are single tokens ("timing" for the timing suffix, "preparation" for    *)
(* the preparation suffix, "drawing", "MFSHEET", "STSHEET", "KLSHEET").    *)
(***************************************************************************)
EXTENDS Integers, Sequences, FiniteSets, TLC

VARIABLES env, fs, pc, w, ora, obs

vars == <<env, fs, pc, w, ora, obs>>

(***************************************************************************)
(* Bounds of the model.                                                    *)
(***************************************************************************)
\* rows of the order source
MaxLines == 2
\* executions of Worker.run on the same file system
MaxRuns == 2

(***************************************************************************)
(* Python string operations.                                               *)
(***************************************************************************)
UpperLetters ==
  <<"A","B","C","D","E","F","G","H","I","J","K","L","M",
    "N","O","P","Q","R","S","T","U","V","W","X","Y","Z">>

LowerLetters ==
  <<"a","b","c","d","e","f","g","h","i","j","k","l","m",
    "n","o","p","q","r","s","t","u","v","w","x","y","z">>

DigitChars == <<"0","1","2","3","4","5","6","7","8","9">>

\* the characters of the model in code-point order; the tokens standing for
\* Persian words come after every ASCII character, as their code points do
CodePointOrder ==
  <<" ", "(", ")", ",", "-", ".">> \o DigitChars \o UpperLetters \o <<"_">>
    \o LowerLetters
    \o <<"timing", "preparation", "drawing", "MFSHEET", "STSHEET", "KLSHEET">>

IndexOf(seq, c) == CHOOSE i \in 1..Len(seq) : seq[i] = c

IsIn(seq, c) == \E i \in 1..Len(seq) : seq[i] = c

LowerChar(c) == IF IsIn(UpperLetters, c) THEN LowerLetters[IndexOf(UpperLetters, c)] ELSE c

UpperChar(c) == IF IsIn(LowerLetters, c) THEN UpperLetters[IndexOf(LowerLetters, c)] ELSE c

lower(s) == [i \in 1..Len(s) |-> LowerChar(s[i])]

upper(s) == [i \in 1..Len(s) |-> UpperChar(s[i])]

IsSpace(c) == c = " "

IsDigit(c) == IsIn(DigitChars, c)

SetMin(S) == CHOOSE x \in S : \A y \in S : x <= y

SetMax(S) == CHOOSE x \in S : \A y \in S : y <= x

strip(s) ==
  LET solid == {i \in 1..Len(s) : ~IsSpace(s[i])}
  IN  IF solid = {} THEN <<>> ELSE SubSeq(s, SetMin(solid), SetMax(solid))

rstrip(s) ==
  LET solid == {i \in 1..Len(s) : ~IsSpace(s[i])}
  IN  IF solid = {} THEN <<>> ELSE SubSeq(s, 1, SetMax(solid))

startswith(s, pre) == Len(s) >= Len(pre) /\ SubSeq(s, 1, Len(pre)) = pre

endswith(s, suf) == Len(s) >= Len(suf) /\ SubSeq(s, Len(s) - Len(suf) + 1, Len(s)) = suf

\* sub in s
contains(s, sub) ==
  \E i \in 1..(Len(s) - Len(sub) + 1) : SubSeq(s, i, i + Len(sub) - 1) = sub

\* os.path.splitext(name)[0]: the name up to its last dot, unless that dot
\* only follows other dots at the start of the name
splitext_root(name) ==
  LET dots == {i \in 1..Len(name) : name[i] = "."}
  IN  IF dots = {} THEN name
      ELSE LET d == SetMax(dots)
           IN  IF \A i \in 1..(d - 1) : name[i] = "." THEN name
               ELSE SubSeq(name, 1, d - 1)

\* re.sub(r'\s*ok$', '', s, flags=re.IGNORECASE)
sub_ok(s) ==
  IF Len(s) >= 2 /\ lower(SubSeq(s, Len(s) - 1, Len(s))) = <<"o", "k">>
  THEN rstrip(SubSeq(s, 1, Len(s) - 2))
  ELSE s

\* s[:n]
prefix(s, n) == SubSeq(s, 1, IF Len(s) < n THEN Len(s) ELSE n)

Ord(c) == IndexOf(CodePointOrder, c)

\* a < b for Python strings
StrLess(a, b) ==
  \E i \in 1..(Len(a) + 1) :
     /\ i <= Len(b)
     /\ \A j \in 1..(i - 1) : a[j] = b[j]
     /\ (i = Len(a) + 1 \/ Ord(a[i]) < Ord(b[i]))

RECURSIVE SortedOf(_)
\* sorted(list(S)) for a set S of strings
SortedOf(S) ==
  IF S = {} THEN <<>>
  ELSE LET m == CHOOSE x \in S : \A y \in S \ {x} : StrLess(x, y)
       IN  <<m>> \o SortedOf(S \ {m})

Range(seq) == {seq[i] : i \in 1..Len(seq)}

RECURSIVE FindCodesFrom(_, _)
\* re.findall(r'(TS-\d+|TF-\d+)', s, re.IGNORECASE), scanning from index i
FindCodesFrom(s, i) ==
  IF i > Len(s) THEN <<>>
  ELSE IF /\ i + 3 <= Len(s)
          /\ UpperChar(s[i]) = "T"
          /\ UpperChar(s[i + 1]) \in {"S", "F"}
          /\ s[i + 2] = "-"
          /\ IsDigit(s[i + 3])
       THEN LET stop == {j \in (i + 3)..Len(s) : ~IsDigit(s[j])}
                e == IF stop = {} THEN Len(s) ELSE SetMin(stop) - 1
            IN  <<SubSeq(s, i, e)>> \o FindCodesFrom(s, e + 1)
       ELSE FindCodesFrom(s, i + 1)

(***************************************************************************)
(* Cell values read through xlwings: None, a number (a float) or text.     *)
(***************************************************************************)
None == [k |-> "none"]

Num(n) == [k |-> "num", n |-> n]

Txt(s) == [k |-> "str", s |-> s]

\* str(value)
str(cell) ==
  CASE cell.k = "none" -> <<"N", "o", "n", "e">>
    [] cell.k = "num"  -> <<DigitChars[cell.n + 1], ".", "0">>
    [] cell.k = "str"  -> cell.s

\* bool(value)
Truthy(cell) ==
  CASE cell.k = "none" -> FALSE
    [] cell.k = "num"  -> cell.n # 0
    [] cell.k = "str"  -> cell.s # <<>>

(***************************************************************************)
(* Program constants.                                                      *)
(***************************************************************************)
\* LOM_PRINT_JOBS: suffix and merge target of the three standard jobs
LOM_PRINT_JOBS ==
  << [suffix |-> <<"L", "O", "M">>, type |-> "main"],
     [suffix |-> <<"timing">>,      type |-> "timing"],
     [suffix |-> <<"preparation">>, type |-> "preparation"] >>

MF_SHEET_NAME == <<"MFSHEET">>

ST_SHEET_NAME == <<"STSHEET">>

KL_SHEET_NAME == <<"KLSHEET">>

\* first rows of the ranges B5:B65, N9:N47 and S5:S24 searched for the last
\* numeric row
LomStartRow == 5

TimingStartRow == 9

PrepStartRow == 5

DotPdf == <<".", "p", "d", "f">>

\* the classification tags
MF == <<"M", "F">>

DS == <<"D", "S">>

DF == <<"D", "F">>

NL == <<"N", "L">>

DL == <<"D", "L">>

MR == <<"M", "R">>

TS == <<"T", "S">>

TF == <<"T", "F">>

\* technical_drawing_paths.get(product_type): the source folder of a
\* classification (NL and DL share a folder, and so do MF and MR), or "none"
technical_drawing_paths(product_type) ==
  CASE product_type = TS -> "thermoswitch"
    [] product_type = TF -> "thermofuse"
    [] product_type = DS -> "wire"
    [] product_type = DF -> "foil"
    [] product_type \in {NL, DL} -> "tube"
    [] product_type \in {MF, MR} -> "rod"
    [] OTHER -> "none"

\* MF_CONFIG, ST_CONFIG, KL_CONFIG: which cells a conditional sheet has
MF_CONFIG == [sheet |-> MF_SHEET_NAME, cell_order |-> TRUE, cell_flag |-> TRUE]

ST_CONFIG == [sheet |-> ST_SHEET_NAME, cell_order |-> FALSE, cell_flag |-> TRUE]

KL_CONFIG == [sheet |-> KL_SHEET_NAME, cell_order |-> FALSE, cell_flag |-> FALSE]

(***************************************************************************)
(* The environment: product codes, the oracle workbook, the drawing store, *)
(* the source folder of order PDFs.                                        *)
(***************************************************************************)
AX == <<"A", "X">>

BX == <<"B", "X">>

CX == <<"C", "X">>

DX == <<"D", "X">>

EX == <<"E", "X">>

TS1 == <<"T", "S", "-", "1">>

TF2 == <<"T", "F", "-", "2">>

RawCodes == {AX, BX, CX, DX, EX}

EmptySheet(check) ==
  [D1 |-> check, D3 |-> None, B |-> <<>>, P9 |-> None, N |-> <<>>,
   U5 |-> None, S |-> <<>>, TV |-> <<>>, C |-> <<>>]

\* The LOM sheet as the workbook computes it from the product code in I4
\* (lookups in the workbook ignore letter case).  D1 is the check cell, D3
\* the type cell, B/N/S the leading cells of B5:B65, N9:N47, S5:S24 (the
\* cells after them are empty), TV the rows of T5:V24 (U5 is the second
\* cell of its first row), C the cells of C5:C64.  bx is the set of
\* suffixes for which BX<suffix> is a product; BXC is of another type than
\* the other BX products.
Workbook(code, bx) ==
  LET c == upper(code)
  IN  CASE c = AX ->
             [D1 |-> Txt(<<"o", "k">>), D3 |-> Txt(<<"m", "f", "-", "r">>),
              B |-> <<Num(1), Num(2)>>,
              P9 |-> Num(3), N |-> <<Num(1)>>,
              U5 |-> Num(2), S |-> <<Num(1), Num(2)>>,
              TV |-> << <<Txt(<<"w">>), Num(2), Num(7)>>,
                        <<None, None, None>>,
                        <<Txt(<<"v">>), Num(1), Num(9)>> >>,
              C |-> <<Txt(<<" ", "T", "S", "-", "1", " ", "x">>),
                      Txt(<<"t", "s", "-", "1">>),
                      Num(7), None,
                      Txt(<<"T", "F", "-", "2", ",", "T", "S", "-", "1">>)>>]
        [] \E s \in bx : c = BX \o s ->
             [D1 |-> None,
              D3 |-> IF c = BX \o <<"C">> THEN Txt(<<"d", "s", "x">>)
                     ELSE Txt(<<"N", "L">>),
              B |-> <<Num(1)>>,
              P9 |-> None, N |-> <<Num(1)>>,
              U5 |-> Num(1), S |-> <<Txt(<<"x">>), None>>,
              TV |-> << <<Txt(<<"w">>), Num(1), Num(5)>> >>,
              C |-> <<>>]
        [] c = DX ->
             [D1 |-> Txt(<<"O", "K">>), D3 |-> Txt(<<"M", "R">>),
              B |-> <<None, Txt(<<"x">>)>>,
              P9 |-> Num(1), N |-> <<None, Num(2)>>,
              U5 |-> None, S |-> <<Num(1)>>,
              TV |-> << <<Txt(<<"w">>), None, Num(5)>> >>,
              C |-> <<Txt(<<"x">>)>>]
        [] c = EX ->
             [D1 |-> Txt(<<"o", "k">>), D3 |-> None,
              B |-> <<Num(1)>>,
              P9 |-> Num(1), N |-> <<Txt(<<"x">>)>>,
              U5 |-> Txt(<<"u">>), S |-> <<None, Num(1)>>,
              TV |-> << <<None, Txt(<<"u">>), None>> >>,
              C |-> <<Txt(<<"t", "f", "-", "2">>)>>]
        [] c = TS1 ->
             [D1 |-> Txt(<<"o", "k">>), D3 |-> Txt(<<"D", "S">>),
              B |-> <<Num(1)>>,
              P9 |-> None, N |-> <<>>,
              U5 |-> None, S |-> <<>>,
              TV |-> <<>>,
              C |-> <<Txt(<<"T", "S", "-", "9">>)>>]
        [] c = TF2 -> EmptySheet(Txt(<<" ", "E", "m", "p", "t", "y", " ">>))
        [] OTHER -> EmptySheet(Txt(<<"e", "m", "p", "t", "y">>))

\* the drawing store: the file names present in each source folder
DrawingStore ==
  [f \in {"thermoswitch", "thermofuse", "wire", "foil", "tube", "rod"} |->
     CASE f = "rod" -> {AX \o DotPdf, DX \o DotPdf}
       [] f = "thermoswitch" -> {TS1 \o DotPdf}
       [] OTHER -> {}]

\* names of order PDFs in the source folder
NamePlain == <<"a", "(", "1", ")", ".", "p", "d", "f">>

NameOk == <<"a", "(", "1", ")", " ", "o", "k", ".", "p", "d", "f">>

NameUpperExt == <<"a", "(", "1", ")", ".", "P", "D", "F">>

NameOkUpper == <<"a", "(", "1", ")", "O", "K", ".", "P", "D", "F">>

NameText == <<"a", "(", "1", ")", ".", "t", "x", "t">>

NameTwo == <<"b", "(", "2", ")", ".", "p", "d", "f">>

NameSpaced == <<"a", "(", "1", ")", " ", ".", "p", "d", "f">>

Listings ==
  { <<NameOk, NameTwo>>, <<NamePlain>>, <<NameUpperExt>>, <<NameOkUpper>>,
    <<NameText, NamePlain, NameOk>>, <<NameTwo>>, <<NameSpaced>> }

\* a configured path: set, or the empty string of the default configuration
SomePath == <<"p">>

DefaultConfig ==
  [order_file_path |-> SomePath, database_file_path |-> SomePath,
   output_base_path |-> SomePath, order_pdf_source_path |-> SomePath,
   delete_temp_files |-> TRUE, file_operation |-> "copy",
   create_preparation_excel |-> "True", print_preparation_pdf |-> "True",
   print_timing_pdf |-> "True"]

\* the check cell of a conditional sheet (P49, P64) once the sheet holds the
\* product code
CondCheckCell(sheet_name, product_code) ==
  IF upper(product_code) = AX /\ sheet_name = MF_SHEET_NAME
  THEN Txt(<<"F", "a", "l", "s", "e">>)
  ELSE None

(***************************************************************************)
(* The file system.  A path is <<folder, name>>; the files of the output   *)
(* folders are a function from path keys to contents (sequences of pages). *)
(* On a file system that ignores letter case two paths that differ in case *)
(* only are the same file.                                                 *)
(***************************************************************************)
Path(folder, name) == <<folder, name>>

basename(path) == path[2]

FsKey(path) ==
  IF env.case_insensitive THEN <<lower(path[1]), lower(path[2])>> ELSE path

\* os.path.exists(path)
Exists(files, path) == FsKey(path) \in DOMAIN files

WriteFile(files, path, content) ==
  [k \in DOMAIN files \cup {FsKey(path)} |->
     IF k = FsKey(path) THEN content ELSE files[k]]

\* os.remove(path)
RemoveFile(files, path) == [k \in DOMAIN files \ {FsKey(path)} |-> files[k]]

ReadFile(files, path) == files[FsKey(path)]

\* the drawing of that name in a source folder, as the file system finds it
DrawingFound(folder, name) ==
  {n \in DrawingStore[folder] :
     IF env.case_insensitive THEN lower(n) = lower(name) ELSE n = name}

(***************************************************************************)
(* Configuration.                                                          *)
(***************************************************************************)
\* self.config.get(key, default) for the boolean toggles
ConfigGet(key, default) ==
  IF env.cfg[key] = "absent" THEN default ELSE env.cfg[key] = "True"

\* os.path.normpath(path): the empty path becomes "."
normpath(path) == IF path = <<>> THEN <<".">> ELSE path

(***************************************************************************)
(* Worker.find_last_numeric_row                                            *)
(***************************************************************************)
find_last_numeric_row(values, start_row) ==
  LET numeric == {i \in 1..Len(values) : values[i].k = "num"}
  IN  IF numeric = {} THEN 0 ELSE start_row + SetMax(numeric) - 1

(***************************************************************************)
(* Worker._process_product.  The state it works on is a record s:          *)
(*   main_merger, preparation_merger, timing_merger: the documents         *)
(*     appended to each merge target, each [path, pages];                  *)
(*   files_to_delete, preparation_excel_data: the registry and the rows;   *)
(*   files: the output folders; cells: the input cells of the oracle;      *)
(*   exports: the exports made so far in the run, ops: the number of       *)
(*   folder and file operations of the run; raised: an exception left      *)
(*   the call; proc: what the call did.                                    *)
(***************************************************************************)
\* a check that knows the sentinel as written in lower case only
IsExactlyEmpty(cell) == str(cell) = <<"e", "m", "p", "t", "y">>

\* str(value).strip().lower() == 'empty'
IsEmptyCheck(cell) == lower(strip(str(cell))) = <<"e", "m", "p", "t", "y">>

LOM == <<"L", "O", "M">>

TimingSuffix == <<"timing">>

PrepSuffix == <<"preparation">>

\* a plan that looks for the last numeric row only, whatever the probe cell
PlanWithoutProbe(suffix, sheet) ==
  LET last_row == CASE suffix = LOM -> find_last_numeric_row(sheet.B, LomStartRow)
                    [] suffix = TimingSuffix -> find_last_numeric_row(sheet.N, TimingStartRow)
                    [] suffix = PrepSuffix -> find_last_numeric_row(sheet.S, PrepStartRow)
  IN  [probe |-> TRUE, last_row |-> last_row,
       print_range |-> IF last_row > 0 THEN <<suffix, last_row>> ELSE <<>>,
       has_data |-> last_row > 0]

\* has_data and print_range of a standard job (lines 232-244)
JobPlan(suffix, sheet) ==
  LET probe == CASE suffix = LOM -> TRUE
                 [] suffix = TimingSuffix -> sheet.P9.k # "none"
                 [] suffix = PrepSuffix -> sheet.U5.k # "none"
      last_row == CASE suffix = LOM -> find_last_numeric_row(sheet.B, LomStartRow)
                    [] suffix = TimingSuffix -> find_last_numeric_row(sheet.N, TimingStartRow)
                    [] suffix = PrepSuffix -> find_last_numeric_row(sheet.S, PrepStartRow)
      print_range == IF probe /\ last_row > 0 THEN <<suffix, last_row>> ELSE <<>>
  IN  [probe |-> probe, last_row |-> IF probe THEN last_row ELSE 0,
       print_range |-> print_range,
       has_data |-> probe /\ print_range # <<>>]

\* a print gate that knows the timing toggle only
PrintUnlessTimingOff(suffix) ==
  ~(suffix = TimingSuffix /\ ~ConfigGet("print_timing_pdf", TRUE))

\* print_this_pdf (lines 252-262)
PrintThisPdf(suffix) ==
  /\ ~(suffix = TimingSuffix /\ ~ConfigGet("print_timing_pdf", TRUE))
  /\ ~(suffix = PrepSuffix /\ ~ConfigGet("print_preparation_pdf", TRUE))

\* the gate of the preparation-table extraction (line 275)
ExtractEnabled(suffix) ==
  suffix = PrepSuffix /\ ConfigGet("create_preparation_excel", TRUE)

\* the rows appended by the extraction (lines 277-281)
ExtractRows(order_num, product_code, sheet) ==
  LET keep == SelectSeq(sheet.TV, LAMBDA row_data : Truthy(row_data[1]))
  IN  [i \in 1..Len(keep) |->
         <<order_num, product_code, keep[i][1], keep[i][2], keep[i][3]>>]

\* ExportAsFixedFormat refuses this range of this product
ExportFails(product, what) == <<upper(product), what>> \in env.export_fails

AppendTo(s, job_type, doc) ==
  CASE job_type = "main" -> [s EXCEPT !.main_merger = Append(@, doc)]
    [] job_type = "preparation" -> [s EXCEPT !.preparation_merger = Append(@, doc)]
    [] job_type = "timing" -> [s EXCEPT !.timing_merger = Append(@, doc)]

\* the export of a standard job that is printed (lines 265-270)
ExportJob(product_code, order_folder, s, job, plan, pdf_filepath) ==
  IF ExportFails(s.cells.product, job.suffix)
  THEN [s EXCEPT !.raised = TRUE, !.failed = Append(@, pdf_filepath)]
  ELSE [s EXCEPT
          !.files = WriteFile(@, pdf_filepath,
                      << <<"sheet", s.cells.product, plan.print_range, s.cells.order>> >>),
          !.ops = @ + 1,
          !.exports = Append(@, [path |-> pdf_filepath,
                                 primed |-> s.cells.product,
                                 what |-> job.suffix]),
          !.files_to_delete = Append(@, pdf_filepath),
          !.proc.printed = Append(@, job.suffix)]

\* an append that puts every standard document into the main target
MergeAllToMain(s, job_type, pdf_filepath) ==
  IF s.raised THEN s
  ELSE AppendTo(s, "main",
                [path |-> pdf_filepath, pages |-> ReadFile(s.files, pdf_filepath)])

\* merger.append(pdf_filepath): the pages are read from the file
MergeJob(s, job_type, pdf_filepath) ==
  IF s.raised THEN s
  ELSE AppendTo(s, job_type,
                [path |-> pdf_filepath, pages |-> ReadFile(s.files, pdf_filepath)])

\* the extraction of the preparation table (lines 275-288)
ExtractJob(s, suffix, rows) ==
  IF s.raised \/ ~ExtractEnabled(suffix) THEN s
  ELSE [s EXCEPT !.preparation_excel_data = @ \o rows,
                 !.proc.extracted = @ \o rows,
                 !.proc.extract_ran = TRUE]

\* a standard job once has_data and print_range are known (lines 246-288)
PlannedJob(product_code, order_num, order_folder, s, job, sheet, plan, pdf_filepath) ==
  IF ~plan.has_data THEN s
  ELSE ExtractJob(
         IF ~PrintThisPdf(job.suffix) THEN s
         ELSE MergeJob(ExportJob(product_code, order_folder, s, job, plan, pdf_filepath),
                       job.type, pdf_filepath),
         job.suffix, ExtractRows(order_num, product_code, sheet))

\* a standard job on the sheet as the oracle shows it
SheetJob(product_code, order_num, order_folder, s, job, sheet) ==
  PlannedJob(product_code, order_num, order_folder,
             [s EXCEPT !.proc.plans =
                Append(@, [suffix |-> job.suffix, plan |-> JobPlan(job.suffix, sheet)])],
             job, sheet, JobPlan(job.suffix, sheet),
             Path(order_folder, product_code \o <<"_">> \o job.suffix \o DotPdf))

\* one iteration of the loop over LOM_PRINT_JOBS (lines 230-288); an
\* exception of an earlier iteration has ended the loop
StandardJob(product_code, order_num, order_folder, s, job) ==
  IF s.raised THEN s
  ELSE SheetJob(product_code, order_num, order_folder, s, job,
                Workbook(s.cells.product, env.bx))

(***************************************************************************)
(* Worker.print_conditional_sheet: primes the sheet, exports it; an        *)
(* exception of the export is caught and the result is False.              *)
(***************************************************************************)
CondFlag(config, product_code) ==
  /\ config.cell_flag
  /\ upper(strip(str(CondCheckCell(config.sheet, product_code)))) = <<"F", "A", "L", "S", "E">>

print_conditional_sheet(product_code, pdf_filepath, config, order_num, s) ==
  IF ExportFails(product_code, config.sheet)
  THEN [ok |-> FALSE, s |-> [s EXCEPT !.caught = Append(@, pdf_filepath)]]
  ELSE [ok |-> TRUE,
        s |-> [s EXCEPT
                 !.files = WriteFile(@, pdf_filepath,
                             << <<"conditional", config.sheet, product_code,
                                  IF config.cell_order THEN order_num ELSE <<>>,
                                  CondFlag(config, product_code)>> >>),
                 !.ops = @ + 1,
                 !.exports = Append(@, [path |-> pdf_filepath,
                                        primed |-> s.cells.product,
                                        what |-> config.sheet])]]

\* a classification that always reads the type cell
ClassifyBySheet(product_code, sheet) == upper(prefix(str(sheet.D3), 2))

\* product_type (lines 290-302)
Classify(product_code, sheet) ==
  IF startswith(upper(product_code), <<"T", "S", "-">>) THEN TS
  ELSE IF startswith(upper(product_code), <<"T", "F", "-">>) THEN TF
  ELSE upper(prefix(str(sheet.D3), 2))

\* a mapping that gives the ST sheet to every classification but MF
SheetsForAll(product_type) ==
  IF product_type = MF THEN <<MF_CONFIG>> ELSE <<ST_CONFIG>>

\* a mapping that stops after the ST sheet
SheetsWithoutKL(product_type) ==
  (IF product_type = MF THEN <<MF_CONFIG>> ELSE <<>>)
    \o (IF product_type \in {DS, DF, NL, DL} THEN <<ST_CONFIG>> ELSE <<>>)

\* the conditional sheets of a classification, in the order of lines 306-322
ConditionalSheets(product_type) ==
  (IF product_type = MF THEN <<MF_CONFIG>> ELSE <<>>)
    \o (IF product_type \in {DS, DF, NL, DL} THEN <<ST_CONFIG>> ELSE <<>>)
    \o (IF product_type \in {NL, DL} THEN <<KL_CONFIG>> ELSE <<>>)

\* what follows the call of print_conditional_sheet (lines 309-310)
ConditionalResult(pdf_filepath, config, r) ==
  IF ~r.ok THEN [r.s EXCEPT !.proc.cond_attempted = Append(@, config.sheet)]
  ELSE [r.s EXCEPT !.proc.cond_attempted = Append(@, config.sheet),
                   !.main_merger =
                      Append(@, [path |-> pdf_filepath,
                                 pages |-> ReadFile(r.s.files, pdf_filepath)]),
                   !.files_to_delete = Append(@, pdf_filepath),
                   !.proc.cond_printed = Append(@, config.sheet)]

CondPath(product_code, order_folder, config) ==
  Path(order_folder, product_code \o <<"_">> \o config.sheet \o DotPdf)

\* one conditional sheet (lines 307-310, 313-316, 319-322)
ConditionalJob(product_code, order_num, order_folder, s, config) ==
  ConditionalResult(CondPath(product_code, order_folder, config), config,
    print_conditional_sheet(product_code, CondPath(product_code, order_folder, config),
                            config, order_num, s))

RECURSIVE ConditionalJobs(_, _, _, _, _)
ConditionalJobs(product_code, order_num, order_folder, s, configs) ==
  IF configs = <<>> THEN s
  ELSE ConditionalJobs(product_code, order_num, order_folder,
                       ConditionalJob(product_code, order_num, order_folder, s, Head(configs)),
                       Tail(configs))

\* shutil.copy of the drawing, main_merger.append, the registry
\* (lines 335-337)
CopyDrawing(s, dest_drawing_path, page) ==
  [s EXCEPT !.files = WriteFile(@, dest_drawing_path, <<page>>),
            !.ops = @ + 1,
            !.main_merger = Append(@, [path |-> dest_drawing_path, pages |-> <<page>>]),
            !.files_to_delete = Append(@, dest_drawing_path),
            !.proc.drawings = Append(@, dest_drawing_path)]

\* the drawing once the source folder is known (lines 331-340)
FolderDrawing(product_code, order_folder, drawing_source_folder, found, s) ==
  IF found = {} THEN [s EXCEPT !.proc.drawing_missing = TRUE]
  ELSE CopyDrawing(s, Path(order_folder, product_code \o <<"_", "drawing">> \o DotPdf),
                   <<"drawing", drawing_source_folder, CHOOSE n \in found : TRUE>>)

\* the technical drawing (lines 329-340)
DrawingJob(product_code, order_folder, product_type, s) ==
  IF technical_drawing_paths(product_type) = "none" THEN s
  ELSE FolderDrawing(product_code, order_folder, technical_drawing_paths(product_type),
                     DrawingFound(technical_drawing_paths(product_type),
                                  product_code \o DotPdf),
                     s)

NewProc(product_code, order_num) ==
  [product_code |-> product_code, order_num |-> order_num, valid |-> TRUE,
   product_type |-> <<>>, plans |-> <<>>, printed |-> <<>>,
   extracted |-> <<>>, extract_ran |-> FALSE,
   cond_attempted |-> <<>>, cond_printed |-> <<>>,
   drawings |-> <<>>, drawing_missing |-> FALSE]

\* lines 290-342, for the classification found
TypedJobs(product_code, order_num, order_folder, product_type, s) ==
  DrawingJob(product_code, order_folder, product_type,
    ConditionalJobs(product_code, order_num, order_folder,
                    [s EXCEPT !.proc.product_type = product_type],
                    ConditionalSheets(product_type)))

\* lines 290-342, after the standard jobs left the state s
AfterStandardJobs(product_code, order_num, order_folder, s) ==
  IF s.raised THEN s
  ELSE TypedJobs(product_code, order_num, order_folder,
                 Classify(product_code, Workbook(s.cells.product, env.bx)), s)

\* lines 220-342, once the oracle is primed
PrimedProduct(product_code, order_num, order_folder, s) ==
  IF IsEmptyCheck(Workbook(s.cells.product, env.bx).D1)
  THEN [s EXCEPT !.proc.valid = FALSE]
  ELSE AfterStandardJobs(product_code, order_num, order_folder,
         StandardJob(product_code, order_num, order_folder,
           StandardJob(product_code, order_num, order_folder,
             StandardJob(product_code, order_num, order_folder, s, LOM_PRINT_JOBS[1]),
             LOM_PRINT_JOBS[2]),
           LOM_PRINT_JOBS[3]))

\* a call that leaves the input cells of the oracle as it finds them
ProcessUnprimed(product_code, order_num, quantity, order_folder, s) ==
  PrimedProduct(product_code, order_num, order_folder,
    [s EXCEPT !.proc = NewProc(product_code, order_num)])

\* Worker._process_product (lines 210-342)
process_product(product_code, order_num, quantity, order_folder, s) ==
  PrimedProduct(product_code, order_num, order_folder,
    [s EXCEPT !.cells = [order |-> order_num, quantity |-> quantity,
                         product |-> product_code],
              !.proc = NewProc(product_code, order_num)])

(***************************************************************************)
(* Variant resolution (Worker.run, lines 469-479).                         *)
(***************************************************************************)
\* the check cell after the product-code cell was set to code
CheckValid(code) == ~IsEmptyCheck(Workbook(code, env.bx).D1)

RECURSIVE ProbeEverySuffix(_, _)
\* a loop over the suffix letters that goes on past an invalid suffix
ProbeEverySuffix(original_product_code, i) ==
  IF i > Len(UpperLetters) THEN [found |-> <<>>, probes |-> <<>>]
  ELSE LET variant_code == original_product_code \o <<UpperLetters[i]>>
           rest == ProbeEverySuffix(original_product_code, i + 1)
       IN  [found |-> (IF CheckValid(variant_code) THEN <<variant_code>> ELSE <<>>)
                        \o rest.found,
            probes |-> <<variant_code>> \o rest.probes]

RECURSIVE ProbeSuffixes(_, _)
\* the loop over the suffix letters from index i: the variants found and the
\* codes written to the product-code cell
ProbeSuffixes(original_product_code, i) ==
  IF i > Len(UpperLetters) THEN [found |-> <<>>, probes |-> <<>>]
  ELSE LET variant_code == original_product_code \o <<UpperLetters[i]>>
       IN  IF CheckValid(variant_code)
           THEN LET rest == ProbeSuffixes(original_product_code, i + 1)
                IN  [found |-> <<variant_code>> \o rest.found,
                     probes |-> <<variant_code>> \o rest.probes]
           ELSE [found |-> <<>>, probes |-> <<variant_code>>]

\* a resolution that probes the suffixes of a valid base code too
ResolveWithSuffixes(original_product_code) ==
  [found |-> (IF CheckValid(original_product_code)
              THEN <<original_product_code>> ELSE <<>>)
               \o ProbeSuffixes(original_product_code, 1).found,
   probes |-> <<original_product_code>> \o ProbeSuffixes(original_product_code, 1).probes]

\* valid_product_codes, with the codes written to the oracle on the way
ResolveVariants(original_product_code) ==
  IF CheckValid(original_product_code)
  THEN [found |-> <<original_product_code>>, probes |-> <<original_product_code>>]
  ELSE LET r == ProbeSuffixes(original_product_code, 1)
       IN  [found |-> r.found, probes |-> <<original_product_code>> \o r.probes]

(***************************************************************************)
(* The scan of the bill of materials (Worker.run, lines 499-507).          *)
(***************************************************************************)
RECURSIVE FoundCodes(_)
FoundCodes(bom_range) ==
  IF bom_range = <<>> THEN <<>>
  ELSE (IF Head(bom_range).k = "str" THEN FindCodesFrom(Head(bom_range).s, 1) ELSE <<>>)
         \o FoundCodes(Tail(bom_range))

\* sub_components, read while the oracle holds the given product code
ScanBom(primed_code) == SortedOf(Range(FoundCodes(Workbook(primed_code, env.bx).C)))

(***************************************************************************)
(* The environment a run starts in.                                        *)
(*   rows: the order source, each row [order, code, quantity];             *)
(*   order_float: the order-number column holds floats (str gives "1.0");  *)
(*   input: the lines typed as order numbers; cfg: config.json;            *)
(*   listing: the names in the source folder of order PDFs;                *)
(*   case_insensitive: the file system ignores letter case;                *)
(*   export_fails: the <<product, range>> the oracle refuses to export;    *)
(*   locked: files that cannot be removed; bx: the valid suffixes of BX    *)
(*   (<<>> is the base code); missing: configured files that do not exist. *)
(***************************************************************************)
SufA == <<"A">>

SufB == <<"B">>

SufC == <<"C">>

Row(order, code) == [order |-> order, code |-> code, quantity |-> 3]

RowChoices == {Row(o, c) : o \in {<<"1">>, <<"2">>}, c \in RawCodes}

RowSeqs(n) == UNION {[1..k -> RowChoices] : k \in 1..n}

BaseEnv ==
  [rows |-> <<Row(<<"1">>, AX)>>, order_float |-> FALSE,
   input |-> << <<"1">>, <<" ", "2", " ">> >>,
   cfg |-> DefaultConfig, listing |-> <<NameOk, NameTwo>>,
   case_insensitive |-> TRUE, export_fails |-> {}, locked |-> {},
   bx |-> {SufA, SufC}, missing |-> {}]

Toggle == {"True", "False"}

\* every sequence of order lines, everything else as in BaseEnv
LineEnvs == {[BaseEnv EXCEPT !.rows = r] : r \in RowSeqs(MaxLines)}

\* every product under every setting of the toggles
ToggleEnvs ==
  {[BaseEnv EXCEPT !.rows = <<Row(<<"1">>, c)>>,
                   !.cfg.print_preparation_pdf = pp,
                   !.cfg.print_timing_pdf = pt,
                   !.cfg.create_preparation_excel = ce,
                   !.cfg.delete_temp_files = d] :
     c \in RawCodes, pp \in Toggle, pt \in Toggle,
     ce \in Toggle \cup {"absent"}, d \in BOOLEAN}

\* every source folder under every file operation and file system
FileEnvs ==
  {[BaseEnv EXCEPT !.rows = r, !.listing = l, !.cfg.file_operation = op,
                   !.cfg.delete_temp_files = d, !.case_insensitive = ci] :
     r \in {<<Row(<<"1">>, AX)>>, <<Row(<<"2">>, BX), Row(<<"1">>, EX)>>,
            <<Row(<<"1">>, CX)>>},
     l \in Listings, op \in {"copy", "cut"}, d \in BOOLEAN, ci \in BOOLEAN}

\* one refused export or one locked file
FaultEnvs ==
  {[BaseEnv EXCEPT !.rows = r, !.export_fails = f, !.locked = k] :
     r \in {<<Row(<<"1">>, AX), Row(<<"2">>, DX)>>, <<Row(<<"1">>, BX)>>,
            <<Row(<<"2">>, AX), Row(<<"1">>, DX)>>},
     f \in {{}, {<<AX, LOM>>}, {<<AX, PrepSuffix>>}, {<<AX, MF_SHEET_NAME>>},
            {<<TS1, LOM>>}, {<<BX \o SufA, ST_SHEET_NAME>>}},
     k \in {{}, {Path(<<"1">>, AX \o <<"_">> \o LOM \o DotPdf)}}}

\* inputs and paths that end the run before the oracle is used, and each
\* of the four configured paths left empty
EarlyEnvs ==
  {[BaseEnv EXCEPT !.input = i, !.order_float = fl] :
     i \in {<<>>, << <<" ">>, <<>> >>, << <<"9">> >>, << <<"1">> >>},
     fl \in BOOLEAN}
  \cup {[BaseEnv EXCEPT !.missing = m] : m \in {{"order_file"}, {"database"}}}
  \cup {[BaseEnv EXCEPT !.cfg.order_file_path = <<>>],
        [BaseEnv EXCEPT !.cfg.database_file_path = <<>>],
        [BaseEnv EXCEPT !.cfg.output_base_path = <<>>],
        [BaseEnv EXCEPT !.cfg.order_pdf_source_path = <<>>]}

\* every set of valid codes among BX, BXA, BXB, BXC
VariantEnvs ==
  {[BaseEnv EXCEPT !.rows = <<Row(<<"1">>, BX)>>, !.bx = v] :
     v \in SUBSET {<<>>, SufA, SufB, SufC}}

Envs == LineEnvs \cup ToggleEnvs \cup FileEnvs \cup FaultEnvs \cup EarlyEnvs \cup VariantEnvs

(***************************************************************************)
(* State.                                                                  *)
(*   fs: [src: names in the source folder, files: the output files,        *)
(*        folders: the order folders];                                     *)
(*   pc: where Worker.run stands;                                          *)
(*   w: the locals of Worker.run;                                          *)
(*   ora: [app: the Excel session is open, db_wb: self.db_wb is set,       *)
(*         cells: the input cells of the LOM sheet];                       *)
(*   obs: what the run did (signals, exports, closes, per-order results;   *)
(*        skipped: the codes of the 'invalid product' warning of line 482;  *)
(*        line_procs: the calls of _process_product for the order line).   *)
(***************************************************************************)
NoName == <<>>

NoPath == <<>>

NoProc == [valid |-> FALSE, product_code |-> <<>>]

NoResolve == [raw |-> <<>>, found |-> <<>>, probes |-> <<>>, base_valid |-> FALSE]

EmptyCells == [order |-> <<>>, quantity |-> 0, product |-> <<>>]

InitW ==
  [filtered |-> <<>>, groups |-> <<>>, order_num_str |-> <<>>,
   lines |-> <<>>, quantity |-> 0,
   valid_product_codes |-> <<>>, sub_components |-> <<>>,
   main_merger |-> <<>>, preparation_merger |-> <<>>, timing_merger |-> <<>>,
   files_to_delete |-> <<>>, preparation_excel_data |-> <<>>,
   original_order_filename |-> NoName, final_main_pdf_path |-> NoPath]

InitOra == [app |-> FALSE, db_wb |-> FALSE, cells |-> EmptyCells]

InitObs(runs, prev) ==
  [runs |-> runs, signals |-> <<>>, finished |-> 0, raised |-> "none",
   exports |-> <<>>, ops |-> 0, failed |-> <<>>, caught |-> <<>>,
   proc |-> NoProc, procs |-> 0, line_procs |-> 0, resolve |-> NoResolve, skipped |-> <<>>,
   opened |-> 0, close_log |-> <<>>,
   orders |-> <<>>, prev |-> prev]

Init ==
  /\ env \in Envs
  /\ fs = [src |-> env.listing, files |-> <<>>, folders |-> {}]
  /\ pc = "idle"
  /\ w = InitW
  /\ ora = InitOra
  /\ obs = InitObs(0, <<>>)

(***************************************************************************)
(* Helpers of Worker.run.                                                  *)
(***************************************************************************)
\* order_numbers_list (line 371)
order_numbers_list ==
  LET stripped == [i \in 1..Len(env.input) |-> strip(env.input[i])]
  IN  SelectSeq(stripped, LAMBDA num : num # <<>>)

\* str(order_num) of a cell of the order-number column
AsStr(order) == IF env.order_float THEN order \o <<".", "0">> ELSE order

\* filtered_df (line 389)
filtered_df ==
  SelectSeq(env.rows, LAMBDA r : AsStr(r.order) \in Range(order_numbers_list))

\* all([...]) over the four normalised paths (line 363)
PathsAllSet ==
  \A key \in {"order_file_path", "database_file_path", "output_base_path",
              "order_pdf_source_path"} : normpath(env.cfg[key]) # <<>>

\* a check that never finds the filtered rows empty
NeverEmpty(filtered) == FALSE

\* filtered_df.empty (line 391)
NothingFound(filtered) == filtered = <<>>

\* filtered_df.groupby(...): the groups in ascending order of the order
\* number, each with its rows in the order of the source
GroupBy(filtered) ==
  LET keys == SortedOf({filtered[i].order : i \in 1..Len(filtered)})
  IN  [i \in 1..Len(keys) |->
         [order |-> keys[i],
          lines |-> SelectSeq(filtered, LAMBDA r : r.order = keys[i])]]

RECURSIVE Pages(_)
\* merger.pages
Pages(merger) ==
  IF merger = <<>> THEN <<>> ELSE Head(merger).pages \o Pages(Tail(merger))

\* the state _process_product works on, from the variables
ProcState ==
  [main_merger |-> w.main_merger, preparation_merger |-> w.preparation_merger,
   timing_merger |-> w.timing_merger, files_to_delete |-> w.files_to_delete,
   preparation_excel_data |-> w.preparation_excel_data,
   files |-> fs.files, cells |-> ora.cells,
   exports |-> obs.exports, ops |-> obs.ops, raised |-> FALSE,
   failed |-> obs.failed, caught |-> obs.caught, proc |-> obs.proc]

\* a call of _process_product whose exception is swallowed by the caller
ReturnedCaught(s, next_pc, variants, subs) ==
  /\ w' = [w EXCEPT !.main_merger = s.main_merger,
                    !.preparation_merger = s.preparation_merger,
                    !.timing_merger = s.timing_merger,
                    !.files_to_delete = s.files_to_delete,
                    !.preparation_excel_data = s.preparation_excel_data,
                    !.valid_product_codes = variants,
                    !.sub_components = subs]
  /\ fs' = [fs EXCEPT !.files = s.files]
  /\ ora' = [ora EXCEPT !.cells = s.cells]
  /\ obs' = [obs EXCEPT !.exports = s.exports, !.ops = s.ops,
                        !.failed = s.failed, !.caught = s.caught,
                        !.proc = s.proc, !.procs = @ + 1, !.line_procs = @ + 1,
                        !.raised = IF s.raised THEN "Exception" ELSE @]
  /\ pc' = next_pc

\* the variables after a call of _process_product that left the state s
Returned(s, next_pc, variants, subs) ==
  /\ w' = [w EXCEPT !.main_merger = s.main_merger,
                    !.preparation_merger = s.preparation_merger,
                    !.timing_merger = s.timing_merger,
                    !.files_to_delete = s.files_to_delete,
                    !.preparation_excel_data = s.preparation_excel_data,
                    !.valid_product_codes = variants,
                    !.sub_components = subs]
  /\ fs' = [fs EXCEPT !.files = s.files]
  /\ ora' = [ora EXCEPT !.cells = s.cells]
  /\ obs' = [obs EXCEPT !.exports = s.exports, !.ops = s.ops,
                        !.failed = s.failed, !.caught = s.caught,
                        !.proc = s.proc, !.procs = @ + 1, !.line_procs = @ + 1,
                        !.raised = IF s.raised THEN "Exception" ELSE @]
  /\ pc' = IF s.raised THEN "except" ELSE next_pc

\* where the loops of lines 462-525 go on after a variant and its
\* sub-components are done
AfterVariant(variants) == IF variants # <<>> THEN "variant" ELSE "line"

\* a name that keeps the marker of the source file
NameKeepsMarker(order_num_str, original_order_filename) ==
  IF original_order_filename # NoName
  THEN strip(splitext_root(original_order_filename))
  ELSE order_num_str

\* clean_name (lines 529-532)
CleanName(order_num_str, original_order_filename) ==
  IF original_order_filename # NoName
  THEN strip(sub_ok(splitext_root(original_order_filename)))
  ELSE order_num_str

\* a gate that writes every merge target
AlwaysWrite(merger) == TRUE

\* len(merger.pages) > 0 (lines 528, 537, 541)
ShouldWrite(merger) == Len(Pages(merger)) > 0

\* the gate of the preparation table file (line 545)
WriteExcelEnabled(rows) ==
  ConfigGet("create_preparation_excel", FALSE) /\ rows # <<>>

RECURSIVE RemoveFirst(_, _)
\* list.remove(x)
RemoveFirst(list, x) ==
  IF list = <<>> THEN <<>>
  ELSE IF Head(list) = x THEN Tail(list)
  ELSE <<Head(list)>> \o RemoveFirst(Tail(list), x)

\* the paths the cleanup goes through (lines 562-563)
CleanupList(files_to_delete, final_main_pdf_path) ==
  IF final_main_pdf_path # NoPath /\ final_main_pdf_path \in Range(files_to_delete)
  THEN RemoveFirst(files_to_delete, final_main_pdf_path)
  ELSE files_to_delete

IsLocked(path) == \E l \in env.locked : FsKey(l) = FsKey(path)

RECURSIVE DeleteAll(_, _)
\* the loop of lines 568-574: the files left, the count of deletions, the
\* count of caught failures and the status messages of the failures
DeleteAll(list, r) ==
  IF list = <<>> THEN r
  ELSE LET file_path == Head(list)
       IN  DeleteAll(Tail(list),
             IF ~Exists(r.files, file_path) THEN r
             ELSE IF IsLocked(file_path)
             THEN [r EXCEPT !.failed_count = @ + 1,
                            !.log = Append(@, [kind |-> "delete_error",
                                               file |-> basename(file_path)])]
             ELSE [r EXCEPT !.files = RemoveFile(@, file_path),
                            !.deleted_count = @ + 1])

(***************************************************************************)
(* Actions.                                                                *)
(***************************************************************************)
\* ProdPlanApp.start_processing and Worker.__init__: a click on the start
\* button while no worker runs.  A blank input is refused by the window.
StartProcessing ==
  /\ pc = "idle"
  /\ obs.runs < MaxRuns
  /\ IF order_numbers_list = <<>>
     THEN /\ obs' = [InitObs(obs.runs + 1, obs.orders) EXCEPT !.signals = <<"ui_warning_empty">>]
          /\ pc' = "idle"
     ELSE /\ obs' = InitObs(obs.runs + 1, obs.orders)
          /\ pc' = "run"
  /\ w' = InitW
  /\ ora' = InitOra
  /\ UNCHANGED <<env, fs>>

\* Worker.run up to the filtered order rows (lines 346-403)
ReadOrders ==
  /\ pc = "run"
  /\ UNCHANGED <<env, fs, ora>>
  /\ IF ~PathsAllSet
     THEN /\ obs' = [obs EXCEPT !.signals = Append(@, "error_paths_not_set"),
                                !.finished = @ + 1]
          /\ pc' = "finally"
          /\ w' = w
     ELSE IF order_numbers_list = <<>>
     THEN /\ obs' = [obs EXCEPT !.signals = Append(@, "error_empty_input"),
                                !.finished = @ + 1]
          /\ pc' = "finally"
          /\ w' = w
     ELSE IF "order_file" \in env.missing
     THEN /\ obs' = [obs EXCEPT !.raised = "FileNotFoundError"]
          /\ pc' = "except"
          /\ w' = w
     ELSE IF normpath(env.cfg.order_file_path) = <<".">>
     THEN /\ obs' = [obs EXCEPT !.raised = "Exception"]
          /\ pc' = "except"
          /\ w' = w
     ELSE IF NothingFound(filtered_df)
     THEN /\ obs' = [obs EXCEPT !.signals = Append(@, "warning_not_found"),
                                !.finished = @ + 1]
          /\ pc' = "finally"
          /\ w' = w
     ELSE /\ obs' = obs
          /\ pc' = "open"
          /\ w' = [w EXCEPT !.filtered = filtered_df]

\* with xw.App(...) as app: self.db_wb = app.books.open(...) (lines 404-406)
OpenOracle ==
  /\ pc = "open"
  /\ UNCHANGED <<env, fs>>
  /\ IF "database" \in env.missing \/ normpath(env.cfg.database_file_path) = <<".">>
     THEN /\ ora' = [ora EXCEPT !.app = TRUE]
          /\ obs' = [obs EXCEPT !.raised =
                        IF "database" \in env.missing THEN "FileNotFoundError"
                        ELSE "Exception"]
          /\ pc' = "except"
          /\ w' = w
     ELSE /\ ora' = [ora EXCEPT !.app = TRUE, !.db_wb = TRUE]
          /\ obs' = [obs EXCEPT !.opened = @ + 1]
          /\ pc' = "order"
          /\ w' = [w EXCEPT !.groups = GroupBy(w.filtered)]

\* the contents of an order PDF of the source folder
SourceContent(filename) == << <<"order", filename>> >>

\* a source folder from which every found order PDF is moved away
SourceMoved(src, filename) == SelectSeq(src, LAMBDA n : n # filename)

\* the source folder after shutil.move or shutil.copy of the order PDF
\* (lines 438-447)
SourceAfter(src, filename) ==
  IF env.cfg.file_operation = "cut"
  THEN SelectSeq(src, LAMBDA n : n # filename)
  ELSE src

\* a row collection that goes on from one order to the next
RowsCarriedOver(previous) == previous

\* preparation_excel_data = [] at the start of an order group (line 418)
NewRows(previous) == <<>>

\* a registration that appends the copy of the source PDF once more
SourceRegisteredTwice(found, dest_filepath) ==
  IF found THEN <<dest_filepath, dest_filepath>> ELSE <<>>

\* files_to_delete = [] at the start of an order group and
\* files_to_delete.append(dest_filepath) for its source PDF (lines 416, 450)
SourceRegistry(found, dest_filepath) ==
  IF found THEN <<dest_filepath>> ELSE <<>>

\* the start of an order group: its folder, its bundle, its source PDF
\* (lines 408-460)
BeginOrder ==
  /\ pc = "order"
  /\ w.groups # <<>>
  /\ LET group == Head(w.groups)
         order_num_str == AsStr(group.order)
         order_folder == order_num_str
         search_pattern == <<"(">> \o order_num_str \o <<")">>
         matches == {i \in 1..Len(fs.src) :
                       /\ contains(fs.src[i], search_pattern)
                       /\ endswith(lower(fs.src[i]), DotPdf)}
         found == matches # {}
         at == IF found THEN SetMin(matches) ELSE 0
         filename == IF found THEN fs.src[at] ELSE NoName
         dest_filepath == Path(order_folder, filename)
         copied == WriteFile(fs.files, dest_filepath, SourceContent(filename))
     IN  /\ fs' = [folders |-> fs.folders \cup {order_folder},
                   files |-> IF found THEN copied ELSE fs.files,
                   src |-> IF found THEN SourceAfter(fs.src, filename) ELSE fs.src]
         /\ w' = [w EXCEPT
                    !.groups = Tail(@),
                    !.order_num_str = order_num_str,
                    !.lines = group.lines,
                    !.valid_product_codes = <<>>,
                    !.sub_components = <<>>,
                    !.main_merger =
                       IF found
                       THEN <<[path |-> dest_filepath,
                               pages |-> ReadFile(copied, dest_filepath)]>>
                       ELSE <<>>,
                    !.preparation_merger = <<>>,
                    !.timing_merger = <<>>,
                    !.files_to_delete = SourceRegistry(found, dest_filepath),
                    !.preparation_excel_data = NewRows(@),
                    !.original_order_filename = filename,
                    !.final_main_pdf_path = NoPath]
         /\ obs' = [obs EXCEPT !.ops = @ + (IF found THEN 2 ELSE 1)]
  /\ pc' = "line"
  /\ UNCHANGED <<env, ora>>

\* a loop that takes a line without a valid code for a fatal error
SkipIsFatal(found) == IF found = <<>> THEN "except" ELSE "variant"

\* if not valid_product_codes: warn and continue with the next line
\* (lines 481-485)
AfterResolve(found) == IF found = <<>> THEN "line" ELSE "variant"

\* one order line: variant resolution (lines 462-485)
ResolveLine ==
  /\ pc = "line"
  /\ w.lines # <<>>
  /\ LET row == Head(w.lines)
         original_product_code == row.code
         r == ResolveVariants(original_product_code)
     IN  /\ ora' = [ora EXCEPT !.cells.product = r.probes[Len(r.probes)]]
         /\ obs' = [obs EXCEPT !.resolve =
                      [raw |-> original_product_code, found |-> r.found,
                       probes |-> r.probes,
                       base_valid |-> CheckValid(original_product_code)],
                      !.skipped = IF r.found = <<>>
                                  THEN Append(@, original_product_code) ELSE @,
                      !.line_procs = 0]
         /\ w' = [w EXCEPT !.lines = Tail(@), !.quantity = row.quantity,
                           !.valid_product_codes = r.found]
         /\ pc' = AfterResolve(r.found)
  /\ UNCHANGED <<env, fs>>

\* the scan of the bill of materials after _process_product left the state
\* s, and the way on (lines 499-516)
VariantDone(s, sub_components) ==
  Returned(s, IF sub_components # <<>> THEN "sub"
              ELSE AfterVariant(Tail(w.valid_product_codes)),
           Tail(w.valid_product_codes), sub_components)

ScanAfter(s) == VariantDone(s, IF s.raised THEN <<>> ELSE ScanBom(s.cells.product))

\* one variant: _process_product, then the scan of the bill of materials
\* (lines 487-511)
ProcessVariant ==
  /\ pc = "variant"
  /\ w.valid_product_codes # <<>>
  /\ ScanAfter(process_product(Head(w.valid_product_codes), w.order_num_str,
                               w.quantity, w.order_num_str, ProcState))
  /\ UNCHANGED env

\* a loop that scans the bill of materials of each sub-component too
SubsRescanned(sub_code, rest) == rest \o ScanBom(sub_code)

\* the sub-components left after sub_code: the loop of line 517 goes over
\* the list of the variant, nothing is scanned for a sub-component
SubsAfter(sub_code, rest) == rest

\* the way on after the call for a sub-component left the state s
SubDone(s, subs) ==
  Returned(s, IF subs # <<>> THEN "sub" ELSE AfterVariant(w.valid_product_codes),
           w.valid_product_codes, subs)

\* one sub-component of the variant (lines 517-525)
ProcessSub ==
  /\ pc = "sub"
  /\ w.sub_components # <<>>
  /\ SubDone(process_product(Head(w.sub_components), w.order_num_str,
                             w.quantity, w.order_num_str, ProcState),
             SubsAfter(Head(w.sub_components), Tail(w.sub_components)))
  /\ UNCHANGED env

PrepPdfPath(order_num_str) ==
  Path(order_num_str, <<"preparation", "(">> \o order_num_str \o <<")">> \o DotPdf)

TimingPdfPath(order_num_str) ==
  Path(order_num_str, <<"timing", "(">> \o order_num_str \o <<")">> \o DotPdf)

PrepExcelPath(order_num_str) ==
  Path(order_num_str,
       <<"preparation", "(">> \o order_num_str \o <<")", ".", "x", "l", "s", "x">>)

\* with open(path, "wb") as f: merger.write(f), when the gate is open
WriteIf(gate, path, content, files) ==
  IF gate THEN WriteFile(files, path, content) ELSE files

\* the end of an order group: the merged outputs (lines 527-556)
Finalize ==
  /\ pc = "line"
  /\ w.lines = <<>>
  /\ LET order_num_str == w.order_num_str
         write_main == ShouldWrite(w.main_merger)
         clean_name == CleanName(order_num_str, w.original_order_filename)
         final_main_pdf_path ==
           IF write_main THEN Path(order_num_str, clean_name \o DotPdf) ELSE NoPath
         write_prep == ShouldWrite(w.preparation_merger)
         write_timing == ShouldWrite(w.timing_merger)
         write_excel == WriteExcelEnabled(w.preparation_excel_data)
         f4 == WriteIf(write_excel, PrepExcelPath(order_num_str),
                       << <<"xlsx", w.preparation_excel_data>> >>,
                 WriteIf(write_timing, TimingPdfPath(order_num_str), Pages(w.timing_merger),
                   WriteIf(write_prep, PrepPdfPath(order_num_str), Pages(w.preparation_merger),
                     WriteIf(write_main, final_main_pdf_path, Pages(w.main_merger),
                             fs.files))))
         written == (IF write_main THEN {"main"} ELSE {})
                      \cup (IF write_prep THEN {"preparation"} ELSE {})
                      \cup (IF write_timing THEN {"timing"} ELSE {})
                      \cup (IF write_excel THEN {"excel"} ELSE {})
         result ==
           [final |-> final_main_pdf_path,
            name |-> IF write_main THEN clean_name \o DotPdf ELSE NoName,
            main_pages |-> IF write_main THEN Pages(w.main_merger) ELSE <<>>,
            written |-> written,
            main_docs |-> Len(w.main_merger),
            preparation_docs |-> Len(w.preparation_merger),
            timing_docs |-> Len(w.timing_merger),
            rows |-> Len(w.preparation_excel_data),
            registry |-> w.files_to_delete,
            cleaned |-> FALSE, deleted_count |-> 0, failed_count |-> 0,
            cleanup_log |-> <<>>]
     IN  /\ fs' = [fs EXCEPT !.files = f4]
         /\ w' = [w EXCEPT !.final_main_pdf_path = final_main_pdf_path]
         /\ obs' = [obs EXCEPT !.ops = @ + Cardinality(written),
                               !.orders = (order_num_str :> result) @@ @]
  /\ pc' = "cleanup"
  /\ UNCHANGED <<env, ora>>

\* the cleanup of the temporary files of the order (lines 558-577); its
\* status messages are a line for each failed deletion and, at the end, the
\* count of the deleted files
Cleanup ==
  /\ pc = "cleanup"
  /\ IF env.cfg.delete_temp_files /\ w.files_to_delete # <<>>
     THEN LET list == CleanupList(w.files_to_delete, w.final_main_pdf_path)
              r == DeleteAll(list, [files |-> fs.files, deleted_count |-> 0,
                                    failed_count |-> 0, log |-> <<>>])
          IN  /\ fs' = [fs EXCEPT !.files = r.files]
              /\ w' = [w EXCEPT !.files_to_delete = list]
              /\ obs' = [obs EXCEPT
                           !.ops = @ + r.deleted_count,
                           !.orders[w.order_num_str] =
                              [@ EXCEPT !.cleaned = TRUE,
                                        !.deleted_count = r.deleted_count,
                                        !.failed_count = r.failed_count,
                                        !.cleanup_log =
                                           Append(r.log, [kind |-> "deleted_total",
                                                          count |-> r.deleted_count])]]
     ELSE UNCHANGED <<fs, w, obs>>
  /\ pc' = "order"
  /\ UNCHANGED <<env, ora>>

\* after the last order: self.db_wb.close(), the end of the with block
\* (lines 579-586)
CloseBook ==
  /\ pc = "order"
  /\ w.groups = <<>>
  /\ obs' = [obs EXCEPT !.close_log = Append(@, [session |-> ora.app]),
                        !.signals = Append(@, "info_done")]
  /\ ora' = [ora EXCEPT !.db_wb = FALSE, !.app = FALSE]
  /\ pc' = "finally"
  /\ UNCHANGED <<env, fs, w>>

\* an exception leaves the try block: the with block ends the Excel session,
\* then the handlers of lines 587-604 report it
HandleException ==
  /\ pc = "except"
  /\ ora' = [ora EXCEPT !.app = FALSE]
  /\ obs' = [obs EXCEPT !.signals =
                Append(@, IF obs.raised = "FileNotFoundError" THEN "error_file"
                          ELSE "error_general")]
  /\ pc' = "finally"
  /\ UNCHANGED <<env, fs, w>>

\* the finally block (lines 605-608).  A close of the workbook after the
\* Excel session ended may raise, and then finished is not emitted.
Finally ==
  /\ pc = "finally"
  /\ \E close_raises \in (IF ora.db_wb /\ ~ora.app THEN BOOLEAN ELSE {FALSE}) :
       obs' = [obs EXCEPT
                 !.close_log = IF ora.db_wb THEN Append(@, [session |-> ora.app]) ELSE @,
                 !.finished = IF close_raises THEN @ ELSE @ + 1,
                 !.raised = IF close_raises THEN "close" ELSE @]
  /\ pc' = "idle"
  /\ UNCHANGED <<env, fs, w, ora>>

Next ==
  \/ StartProcessing
  \/ ReadOrders
  \/ OpenOracle
  \/ BeginOrder
  \/ ResolveLine
  \/ ProcessVariant
  \/ ProcessSub
  \/ Finalize
  \/ Cleanup
  \/ CloseBook
  \/ HandleException
  \/ Finally

Spec == Init /\ [][Next]_vars

(***************************************************************************)
(* The older pipelines: Worker.run of ProdPlanGeneratorFardanApex.py       *)
(* ("apex") and process_orders_in_thread of processor0.0.12.py             *)
(* ("processor"), each with the window that starts it.  Every click on the *)
(* start button starts a thread that processes the order '1', whose one    *)
(* line is the product AX.  In this specification                          *)
(*   env: the pipeline, the source folder, the toggles of the apex         *)
(*        configuration, whether a row matches the typed order number,     *)
(*        whether the export of the conditional sheet fails, the locked    *)
(*        files;                                                           *)
(*   pc: the position of each thread; w: the locals of each thread;        *)
(*   ora: the threads that hold an Excel session;                          *)
(*   obs: the state of the start button and the count of the clicks.       *)
(***************************************************************************)
RECURSIVE RemoveAll(_, _)
\* s.replace(old, '')
RemoveAll(s, old) ==
  IF s = <<>> THEN <<>>
  ELSE IF startswith(s, old) THEN RemoveAll(SubSeq(s, Len(old) + 1, Len(s)), old)
  ELSE <<Head(s)>> \o RemoveAll(Tail(s), old)

RECURSIVE SubEveryOk(_)
\* re.sub(r'\s*ok', '', s, flags=re.IGNORECASE) (processor0.0.12.py)
SubEveryOk(s) ==
  IF s = <<>> THEN <<>>
  ELSE LET solid == {i \in 1..Len(s) : ~IsSpace(s[i])}
           j == IF solid = {} THEN Len(s) + 1 ELSE SetMin(solid)
       IN  IF j + 1 <= Len(s) /\ lower(SubSeq(s, j, j + 1)) = <<"o", "k">>
           THEN SubEveryOk(SubSeq(s, j + 2, Len(s)))
           ELSE <<Head(s)>> \o SubEveryOk(Tail(s))

\* re.sub(r'[\s_]?ok$', '', s, flags=re.IGNORECASE) (ProdPlanGeneratorFardanApex.py)
SubSepOkAtEnd(s) ==
  IF Len(s) >= 2 /\ lower(SubSeq(s, Len(s) - 1, Len(s))) = <<"o", "k">>
  THEN IF Len(s) >= 3 /\ (IsSpace(s[Len(s) - 2]) \/ s[Len(s) - 2] = "_")
       THEN SubSeq(s, 1, Len(s) - 3)
       ELSE SubSeq(s, 1, Len(s) - 2)
  ELSE s

\* clean_name of the older pipelines: the marker is looked for in the whole
\* file name, the text '.pdf' is taken out after it
OldCleanName(pipeline, order_num, original_order_filename) ==
  IF original_order_filename = NoName THEN order_num
  ELSE strip(RemoveAll(IF pipeline = "apex"
                       THEN SubSepOkAtEnd(original_order_filename)
                       ELSE SubEveryOk(original_order_filename),
                       DotPdf))

OldOrder == <<"1">>

Threads == 1..MaxRuns

OldLocals ==
  [main_merger |-> <<>>, preparation_merger |-> <<>>, timing_merger |-> <<>>,
   files_to_delete |-> <<>>, original_order_filename |-> NoName,
   output_path |-> NoPath, cleaned |-> FALSE]

OldBaseEnv ==
  [pipeline |-> "processor", listing |-> <<NamePlain>>,
   delete_temp_files |-> TRUE, file_operation |-> "copy",
   case_insensitive |-> TRUE, matches |-> TRUE, cond_fails |-> FALSE,
   locked |-> {}]

OldEnvs ==
  {[OldBaseEnv EXCEPT !.pipeline = p, !.listing = l, !.case_insensitive = ci,
                      !.cond_fails = cf] :
     p \in {"apex", "processor"}, l \in Listings, ci \in BOOLEAN, cf \in BOOLEAN}
  \cup {[OldBaseEnv EXCEPT !.pipeline = "apex", !.listing = l,
                           !.delete_temp_files = d, !.file_operation = op] :
          l \in Listings, d \in BOOLEAN, op \in {"copy", "cut"}}
  \cup {[OldBaseEnv EXCEPT !.pipeline = p, !.matches = FALSE] :
          p \in {"apex", "processor"}}
  \cup {[OldBaseEnv EXCEPT !.pipeline = p,
                           !.locked = {Path(OldOrder, AX \o <<"_">> \o LOM \o DotPdf)}] :
          p \in {"apex", "processor"}}

OldInit ==
  /\ env \in OldEnvs
  /\ fs = [src |-> env.listing, files |-> <<>>, folders |-> {}]
  /\ pc = [t \in Threads |-> "unborn"]
  /\ w = [t \in Threads |-> OldLocals]
  /\ ora = [sessions |-> {}]
  /\ obs = [button |-> "normal", clicks |-> 0]

\* update_gui_status of processor0.0.12.py: a status message that holds one
\* of the words for 'error', 'end' or 'completion' sets the start button
\* back to normal; the status slot of the apex window only shows the text
update_gui_status(has_word, button) ==
  IF env.pipeline = "processor" /\ has_word THEN "normal" ELSE button

\* thread.finished of the apex window enables the start button
thread_finished(button) == IF env.pipeline = "apex" THEN "normal" ELSE button

\* start_processing_action / start_processing: a click on the start button
\* while it is enabled disables it and starts a thread
start_processing_action ==
  /\ obs.button = "normal"
  /\ obs.clicks < MaxRuns
  /\ pc[obs.clicks + 1] = "unborn"
  /\ obs' = [button |-> "disabled", clicks |-> obs.clicks + 1]
  /\ pc' = [pc EXCEPT ![obs.clicks + 1] = "start"]
  /\ UNCHANGED <<env, fs, w, ora>>

\* the order rows are read; when none matches, the thread returns after a
\* message box, else the Excel session is opened
OldReadOrders(t) ==
  /\ pc[t] = "start"
  /\ IF ~env.matches
     THEN /\ pc' = [pc EXCEPT ![t] = "ended"]
          /\ obs' = [obs EXCEPT !.button = thread_finished(@)]
          /\ ora' = ora
     ELSE /\ pc' = [pc EXCEPT ![t] = "order"]
          /\ obs' = obs
          /\ ora' = [ora EXCEPT !.sessions = @ \cup {t}]
  /\ UNCHANGED <<env, fs, w>>

\* the start of the order group: its folder, its source PDF
OldBeginOrder(t) ==
  /\ pc[t] = "order"
  /\ LET search_pattern == <<"(">> \o OldOrder \o <<")">>
         matches == {i \in 1..Len(fs.src) :
                       /\ contains(fs.src[i], search_pattern)
                       /\ endswith(lower(fs.src[i]), DotPdf)}
         found == matches # {}
         filename == IF found THEN fs.src[SetMin(matches)] ELSE NoName
         dest_filepath == Path(OldOrder, filename)
     IN  /\ fs' = [folders |-> fs.folders \cup {OldOrder},
                   files |-> IF found
                             THEN WriteFile(fs.files, dest_filepath, SourceContent(filename))
                             ELSE fs.files,
                   src |-> IF found /\ env.pipeline = "apex" /\ env.file_operation = "cut"
                           THEN SelectSeq(fs.src, LAMBDA n : n # filename)
                           ELSE fs.src]
         /\ w' = [w EXCEPT ![t] =
                    [OldLocals EXCEPT
                       !.main_merger = IF found THEN <<dest_filepath>> ELSE <<>>,
                       !.files_to_delete = IF found THEN <<dest_filepath>> ELSE <<>>,
                       !.original_order_filename = filename]]
  /\ pc' = [pc EXCEPT ![t] = "product"]
  /\ UNCHANGED <<env, ora, obs>>

\* one standard job of the product: exported when it has data, registered
\* and appended to the target of its type
OldStandardJob(s, job, plan, pdf_filepath) ==
  IF ~plan.has_data THEN s
  ELSE [s EXCEPT
          !.files = WriteFile(@, pdf_filepath, << <<"sheet", AX, plan.print_range, OldOrder>> >>),
          !.locals.files_to_delete = Append(@, pdf_filepath),
          !.locals.main_merger = IF job.type = "main" THEN Append(@, pdf_filepath) ELSE @,
          !.locals.preparation_merger =
             IF job.type = "preparation" THEN Append(@, pdf_filepath) ELSE @,
          !.locals.timing_merger = IF job.type = "timing" THEN Append(@, pdf_filepath) ELSE @]

OldJob(s, job) ==
  OldStandardJob(s, job, JobPlan(job.suffix, Workbook(AX, {})),
                 Path(OldOrder, AX \o <<"_">> \o job.suffix \o DotPdf))

\* the conditional sheet of the product (AX is of the type MF): when its
\* export fails, print_conditional_sheet reports the error and returns False
OldConditional(s, pdf_filepath) ==
  IF env.cond_fails THEN [s EXCEPT !.error_message = TRUE]
  ELSE [s EXCEPT
          !.files = WriteFile(@, pdf_filepath, << <<"conditional", MF_SHEET_NAME, AX>> >>),
          !.locals.main_merger = Append(@, pdf_filepath),
          !.locals.files_to_delete = Append(@, pdf_filepath)]

\* the technical drawing of the product: copied, appended and registered
\* when the source folder of the type MF holds it
OldDrawing(s, found, dest_drawing_path) ==
  IF found = {} THEN s
  ELSE [s EXCEPT
          !.files = WriteFile(@, dest_drawing_path,
                              << <<"drawing", technical_drawing_paths(MF),
                                   CHOOSE n \in found : TRUE>> >>),
          !.locals.main_merger = Append(@, dest_drawing_path),
          !.locals.files_to_delete = Append(@, dest_drawing_path)]

OldProductDone(t, s) ==
  /\ fs' = [fs EXCEPT !.files = s.files]
  /\ w' = [w EXCEPT ![t] = s.locals]
  /\ obs' = [obs EXCEPT !.button = update_gui_status(s.error_message, @)]

\* the documents of the product of the order line
OldProduct(t) ==
  /\ pc[t] = "product"
  /\ OldProductDone(t,
       OldDrawing(
         OldConditional(
           OldJob(OldJob(OldJob([files |-> fs.files, locals |-> w[t],
                                 error_message |-> FALSE],
                                LOM_PRINT_JOBS[1]),
                         LOM_PRINT_JOBS[2]),
                  LOM_PRINT_JOBS[3]),
           Path(OldOrder, AX \o <<"_">> \o MF_SHEET_NAME \o DotPdf)),
         DrawingFound(technical_drawing_paths(MF), AX \o DotPdf),
         Path(OldOrder, AX \o <<"_", "drawing">> \o DotPdf)))
  /\ pc' = [pc EXCEPT ![t] = "final"]
  /\ UNCHANGED <<env, ora>>

\* the merged outputs of the order
OldFinalize(t) ==
  /\ pc[t] = "final"
  /\ LET clean_name == OldCleanName(env.pipeline, OldOrder, w[t].original_order_filename)
         output_path == IF w[t].main_merger # <<>>
                        THEN Path(OldOrder, clean_name \o DotPdf) ELSE NoPath
     IN  /\ fs' = [fs EXCEPT !.files =
                     WriteIf(w[t].timing_merger # <<>>, TimingPdfPath(OldOrder),
                             w[t].timing_merger,
                       WriteIf(w[t].preparation_merger # <<>>, PrepPdfPath(OldOrder),
                               w[t].preparation_merger,
                         WriteIf(w[t].main_merger # <<>>, output_path,
                                 w[t].main_merger, fs.files)))]
         /\ w' = [w EXCEPT ![t].output_path = output_path]
  /\ pc' = [pc EXCEPT ![t] = "cleanup"]
  /\ UNCHANGED <<env, ora, obs>>

\* the cleanup enabled: always in the processor, by the toggle in apex
OldCleanupEnabled(files_to_delete) ==
  /\ files_to_delete # <<>>
  /\ env.pipeline = "apex" => env.delete_temp_files

OldCleaned(t, r) ==
  /\ fs' = [fs EXCEPT !.files = r.files]
  /\ obs' = [obs EXCEPT !.button = update_gui_status(r.log # <<>>, @)]

\* the cleanup of the order: every registered file that exists is removed
OldCleanup(t) ==
  /\ pc[t] = "cleanup"
  /\ IF OldCleanupEnabled(w[t].files_to_delete)
     THEN /\ OldCleaned(t, DeleteAll(w[t].files_to_delete,
                                     [files |-> fs.files, deleted_count |-> 0,
                                      failed_count |-> 0, log |-> <<>>]))
          /\ w' = [w EXCEPT ![t].cleaned = TRUE]
     ELSE UNCHANGED <<fs, obs, w>>
  /\ pc' = [pc EXCEPT ![t] = "close"]
  /\ UNCHANGED <<env, ora>>

\* db_wb.close() and the closing status message, which holds the word for
\* 'end'; the processor thread then waits in a message box
OldClose(t) ==
  /\ pc[t] = "close"
  /\ obs' = [obs EXCEPT !.button = update_gui_status(TRUE, @)]
  /\ pc' = [pc EXCEPT ![t] = "box"]
  /\ UNCHANGED <<env, fs, w, ora>>

\* the end of the thread: the Excel session ends with the with block
OldEnd(t) ==
  /\ pc[t] = "box"
  /\ ora' = [ora EXCEPT !.sessions = @ \ {t}]
  /\ obs' = [obs EXCEPT !.button = thread_finished(@)]
  /\ pc' = [pc EXCEPT ![t] = "ended"]
  /\ UNCHANGED <<env, fs, w>>

OldNext ==
  \/ start_processing_action
  \/ \E t \in Threads : OldReadOrders(t)
  \/ \E t \in Threads : OldBeginOrder(t)
  \/ \E t \in Threads : OldProduct(t)
  \/ \E t \in Threads : OldFinalize(t)
  \/ \E t \in Threads : OldCleanup(t)
  \/ \E t \in Threads : OldClose(t)
  \/ \E t \in Threads : OldEnd(t)

OldSpec == OldInit /\ [][OldNext]_vars

(***************************************************************************)
(* Properties.                                                             *)
(***************************************************************************)
Finalized == DOMAIN obs.orders

\* C1: after the cleanup of an order, the merged main bundle written for
\* the order still exists at its final main path, whatever the name of the
\* source order PDF and whatever the products of the order.
C1_CleanupKeepsFinalBundle ==
  \A o \in Finalized :
    (obs.orders[o].cleaned /\ obs.orders[o].final # NoPath)
      => Exists(fs.files, obs.orders[o].final)

\* the documents of the three merge targets and the registry
AllDocs == Range(w.main_merger) \cup Range(w.preparation_merger) \cup Range(w.timing_merger)

\* C2: a failed export of one document (standard or conditional) is caught
\* for that document: no exception leaves _process_product, nothing is
\* appended or registered for the document, and the run goes on.
C2_ExportFailureIsCaught ==
  \A p \in Range(obs.failed) \cup Range(obs.caught) :
    /\ obs.raised = "none"
    /\ pc # "except"
    /\ p \notin Range(w.files_to_delete)
    /\ \A d \in AllDocs : d.path # p

\* C3: a run that opened the workbook closes it exactly once and while the
\* Excel session is open, on normal completion and on abort; a run that did
\* not open it never closes it.
C3_ClosedOnceInSession ==
  /\ Len(obs.close_log) <= obs.opened
  /\ \A i \in 1..Len(obs.close_log) : obs.close_log[i].session
  /\ (pc = "idle" /\ obs.opened = 1) => Len(obs.close_log) = 1

\* the code with the i-th suffix letter
Lettered(raw, i) == raw \o <<UpperLetters[i]>>

\* C4: for a raw code whose base is invalid, the variants found are the
\* longest run of consecutive valid suffixes from A on, in alphabetical
\* order, and the codes written to the oracle end with the first invalid
\* suffix: no later suffix is probed.
C4_StopsAtFirstInvalidSuffix ==
  (obs.resolve.raw # <<>> /\ ~obs.resolve.base_valid) =>
    \E n \in 0..Len(UpperLetters) :
      /\ \A i \in 1..n : CheckValid(Lettered(obs.resolve.raw, i))
      /\ n < Len(UpperLetters) => ~CheckValid(Lettered(obs.resolve.raw, n + 1))
      /\ obs.resolve.found = [i \in 1..n |-> Lettered(obs.resolve.raw, i)]
      /\ obs.resolve.probes =
           <<obs.resolve.raw>>
             \o [i \in 1..(IF n < Len(UpperLetters) THEN n + 1 ELSE n) |->
                   Lettered(obs.resolve.raw, i)]

\* A and C valid, B invalid: the result is [codeA] and C was not probed
C4_GapCase ==
  /\ obs.resolve.raw = BX
  /\ ~obs.resolve.base_valid
  /\ CheckValid(BX \o SufA) /\ ~CheckValid(BX \o SufB) /\ CheckValid(BX \o SufC)
  /\ obs.resolve.found = <<BX \o SufA>>
  /\ (BX \o SufC) \notin Range(obs.resolve.probes)
  /\ pc = "variant"

\* C5: for a raw code that is valid in the oracle, the variants found are
\* the base code alone, and the base code is the only code written to the
\* product-code cell during the resolution.
C5_ValidBaseIsOnlyVariant ==
  (obs.resolve.raw # <<>> /\ CheckValid(obs.resolve.raw)) =>
    /\ obs.resolve.found = <<obs.resolve.raw>>
    /\ obs.resolve.probes = <<obs.resolve.raw>>
    /\ (pc = "variant" /\ w.valid_product_codes = obs.resolve.found)
         => ora.cells.product = obs.resolve.raw

\* a valid base code whose suffix A is valid too
C5_ValidBaseWithValidSuffix ==
  /\ obs.resolve.raw = BX
  /\ CheckValid(BX) /\ CheckValid(BX \o SufA)
  /\ obs.resolve.found = <<BX>>
  /\ pc = "variant"

\* the classifications of the conditional mapping
ConditionalMapping == {MF, DS, DF, NL, DL}

\* a valid product whose call came to the classification
Classified ==
  /\ obs.proc.valid
  /\ obs.proc.product_type # <<>>

\* C6 as stated: a classification outside the conditional mapping gets no
\* conditional document and no drawing copy.
C6_NoConditionalNoDrawing ==
  (Classified /\ obs.proc.product_type \notin ConditionalMapping) =>
    /\ obs.proc.cond_attempted = <<>>
    /\ obs.proc.drawings = <<>>

\* C6: a classification outside the conditional mapping gets no conditional
\* document; it gets no drawing copy when it has no drawing folder, that
\* is when it is none of TS, TF, MR (and of the mapping's MF, DS, DF, NL,
\* DL); MR, TS and TF have a drawing folder.
C6_NoConditionalOutsideMapping ==
  (Classified /\ obs.proc.product_type \notin ConditionalMapping) =>
    /\ obs.proc.cond_attempted = <<>>
    /\ obs.proc.cond_printed = <<>>
    /\ \A e \in Range(obs.exports) :
         e.primed = obs.proc.product_code
           => e.what \notin {MF_SHEET_NAME, ST_SHEET_NAME, KL_SHEET_NAME}
    /\ obs.proc.product_type \notin {MR, TS, TF} =>
         /\ obs.proc.drawings = <<>>
         /\ ~obs.proc.drawing_missing
    /\ technical_drawing_paths(MR) # "none"
    /\ technical_drawing_paths(TS) # "none"
    /\ technical_drawing_paths(TF) # "none"

\* an unclassified product went through _process_product and printed
C6_UnclassifiedProcessed ==
  /\ Classified
  /\ obs.proc.product_type \notin ConditionalMapping \cup {MR, TS, TF}
  /\ obs.proc.printed # <<>>
  /\ obs.proc.cond_attempted = <<>>
  /\ obs.proc.drawings = <<>>

\* the orders finalized by this run and by the run before it
Rerun == Finalized \cap DOMAIN obs.prev

SameBundle(o) ==
  /\ obs.orders[o].name = obs.prev[o].name
  /\ obs.orders[o].main_pages = obs.prev[o].main_pages

\* C7 as stated: a second run on an order whose first run cleaned up gives
\* a main bundle of the same name and pages, for file_operation 'copy' and
\* for 'cut'.
C7_RerunSameBundle ==
  \A o \in Rerun : obs.prev[o].cleaned => SameBundle(o)

\* C7: with file_operation 'copy', a second run on an order whose first run
\* cleaned up gives a main bundle of the same name and the same pages.
\* (With 'cut' the first run moved the source order PDF away.)
C7_RerunSameBundleOnCopy ==
  \A o \in Rerun :
    (obs.prev[o].cleaned /\ env.cfg.file_operation = "copy") => SameBundle(o)

\* a second run finalized an order the first run bundled and cleaned up
C7_SecondRunFinalized ==
  \E o \in Rerun :
    /\ obs.prev[o].cleaned
    /\ env.cfg.file_operation = "copy"
    /\ obs.prev[o].deleted_count > 0
    /\ obs.prev[o].name # NoName
    /\ Len(obs.orders[o].main_pages) > 1
    /\ obs.runs = 2

\* the preparation job of the product last processed had data
PrepHadData ==
  /\ obs.proc.valid
  /\ \E i \in DOMAIN obs.proc.plans :
       /\ obs.proc.plans[i].suffix = PrepSuffix
       /\ obs.proc.plans[i].plan.has_data

\* a PDF of the output folders named after the preparation job
IsPrepPdf(name) == "preparation" \in Range(name) /\ endswith(lower(name), DotPdf)

\* C8: with the print-preparation toggle off no preparation PDF is
\* exported, appended to the preparation target or written, for any
\* product of any order; and for every product whose preparation job has
\* data the rows of the preparation table are extracted when the
\* create-preparation-table toggle is on.
C8_PrepToggleOff ==
  env.cfg.print_preparation_pdf = "False" =>
    /\ \A e \in Range(obs.exports) : e.what # PrepSuffix
    /\ w.preparation_merger = <<>>
    /\ \A o \in Finalized :
         /\ "preparation" \notin obs.orders[o].written
         /\ obs.orders[o].preparation_docs = 0
    /\ \A k \in DOMAIN fs.files : ~IsPrepPdf(k[2])
    /\ (PrepHadData /\ env.cfg.create_preparation_excel = "True") =>
         /\ obs.proc.extract_ran
         /\ obs.proc.extracted =
              ExtractRows(obs.proc.order_num, obs.proc.product_code,
                          Workbook(obs.proc.product_code, env.bx))
         /\ obs.proc.order_num = w.order_num_str =>
              Range(obs.proc.extracted) \subseteq Range(w.preparation_excel_data)

\* preparation data exists, the print toggle is off, the rows were extracted
C8_ExtractedWithoutPdf ==
  /\ env.cfg.print_preparation_pdf = "False"
  /\ env.cfg.create_preparation_excel = "True"
  /\ PrepHadData
  /\ obs.proc.extracted # <<>>
  /\ PrepSuffix \notin Range(obs.proc.printed)
  /\ w.preparation_merger = <<>>

\* no requested order number is the order number of a row
NoRowMatches ==
  /\ order_numbers_list # <<>>
  /\ \A i \in 1..Len(env.rows) : \A j \in 1..Len(env.input) :
       AsStr(env.rows[i].order) # strip(env.input[j])

\* C9: when no requested order number matches a row of the order source,
\* the run emits the 'not found' warning, makes no folder, copies, moves,
\* exports, writes or deletes no file, and never opens the oracle workbook.
C9_NotFoundDoesNothing ==
  NoRowMatches =>
    /\ obs.ops = 0
    /\ obs.exports = <<>>
    /\ fs.folders = {}
    /\ fs.files = <<>>
    /\ fs.src = env.listing
    /\ obs.opened = 0
    /\ ~ora.app /\ ~ora.db_wb
    /\ (pc = "finally" /\ obs.raised = "none")
         => "warning_not_found" \in Range(obs.signals)
    /\ pc \in {"idle", "run", "finally"}

\* the run came to its end with the warning
C9_WarnedNotFound ==
  /\ NoRowMatches
  /\ pc = "finally"
  /\ "warning_not_found" \in Range(obs.signals)

\* the file at the path is created or changed by the step
Written(path) ==
  /\ FsKey(path) \in DOMAIN fs'.files
  /\ FsKey(path) \in DOMAIN fs.files => fs'.files[FsKey(path)] # fs.files[FsKey(path)]

\* the step writes the file of a merge target only if the target holds a page
WrittenOnlyWithPages(merger, path) ==
  Written(path) => (merger # <<>> /\ Len(Pages(merger)) >= 1)

\* C10: at the finalization of an order, for each of the three merge
\* targets by itself: a target to which no document was appended gets no
\* output file; a file is written for a target only if it holds a page.
C10_NoDocumentNoFile ==
  [][(pc = "line" /\ pc' = "cleanup") =>
       /\ WrittenOnlyWithPages(w.main_merger,
            Path(w.order_num_str,
                 CleanName(w.order_num_str, w.original_order_filename) \o DotPdf))
       /\ WrittenOnlyWithPages(w.preparation_merger, PrepPdfPath(w.order_num_str))
       /\ WrittenOnlyWithPages(w.timing_merger, TimingPdfPath(w.order_num_str))
       /\ w.main_merger = <<>> =>
            /\ w'.final_main_pdf_path = NoPath
            /\ "main" \notin obs'.orders[w.order_num_str].written
       /\ w.preparation_merger = <<>> =>
            "preparation" \notin obs'.orders[w.order_num_str].written
       /\ w.timing_merger = <<>> =>
            "timing" \notin obs'.orders[w.order_num_str].written
       /\ \A k \in DOMAIN fs'.files :
            (k \notin DOMAIN fs.files /\ endswith(k[2], DotPdf))
              => fs'.files[k] # <<>>]_vars

\* an order was finalized with a main bundle and an empty preparation target
C10_SomeTargetsEmpty ==
  /\ pc = "cleanup"
  /\ w.order_num_str \in Finalized
  /\ obs.orders[w.order_num_str].written = {"main", "timing"}
  /\ w.preparation_merger = <<>>
  /\ ~Exists(fs.files, PrepPdfPath(w.order_num_str))
  /\ Exists(fs.files, TimingPdfPath(w.order_num_str))

\* what an order has gathered and what the run has done to folders and files
Bundle ==
  <<w.main_merger, w.preparation_merger, w.timing_merger, w.files_to_delete,
    w.preparation_excel_data, w.sub_components, fs, obs.exports, obs.procs, obs.ops>>

\* neither the code nor the code with the suffix A is a product of the oracle
NoValidCode(code) == ~CheckValid(code) /\ ~CheckValid(Lettered(code, 1))

\* C11: an order line of which neither the base code nor the suffix A is
\* valid resolves to no variant; the 'invalid product' warning is emitted,
\* no document job, no scan of the bill of materials and no change of the
\* bundle happens for it, no error is raised, and the run goes on with the
\* next line of the same order.
C11_InvalidLineIsSkipped ==
  [][(pc = "line" /\ w.lines # <<>> /\ NoValidCode(Head(w.lines).code)) =>
       /\ w'.valid_product_codes = <<>>
       /\ obs'.skipped = Append(obs.skipped, Head(w.lines).code)
       /\ Bundle' = Bundle
       /\ obs'.raised = obs.raised
       /\ obs'.signals = obs.signals
       /\ pc' = "line"
       /\ w'.lines = Tail(w.lines)
       /\ w'.order_num_str = w.order_num_str]_vars

\* the first line of an order was skipped and its second line is resolved
C11_NextLineAfterSkip ==
  /\ obs.skipped = <<CX>>
  /\ obs.resolve.raw = AX
  /\ pc = "variant"
  /\ obs.procs = 0
  /\ Finalized = {}

\* the files outside the folder of the order in hand are as they were
OtherOrdersKept ==
  \A k \in DOMAIN fs.files :
    k[1] # FsKey(Path(w.order_num_str, <<>>))[1]
      => (k \in DOMAIN fs'.files /\ fs'.files[k] = fs.files[k])

\* C12: an exception that leaves _process_product while an order is
\* processed ends the batch: the failing order is not finalized and not
\* cleaned up (its temp files stay), the files of the orders finished before
\* it are not touched, and after the exception no order group is started,
\* no file is written or deleted and no product is processed.
C12_ExceptionStopsBatch ==
  [][/\ (pc \in {"variant", "sub"} /\ pc' = "except") =>
          /\ w.order_num_str \notin DOMAIN obs'.orders
          /\ w'.files_to_delete # <<>> =>
               \A p \in Range(w'.files_to_delete) : Exists(fs'.files, p)
          /\ OtherOrdersKept
          /\ w'.groups = w.groups
     /\ (obs.raised # "none" /\ pc # "idle") =>
          /\ fs' = fs
          /\ w' = w
          /\ obs'.orders = obs.orders
          /\ obs'.ops = obs.ops
          /\ obs'.procs = obs.procs
          /\ pc' \in {"finally", "idle"}]_vars

\* the second order of a batch failed after the first was finalized; its
\* temp files are there and it has no merged output
C12_SecondOrderFailed ==
  /\ obs.raised = "Exception"
  /\ pc = "finally"
  /\ Finalized # {}
  /\ w.order_num_str \notin Finalized
  /\ w.files_to_delete # <<>>
  /\ \A p \in Range(w.files_to_delete) : Exists(fs.files, p)
  /\ \A o \in Finalized : Exists(fs.files, obs.orders[o].final)

\* the rows of the table range of a product whose first cell is non-empty
TableRows(code) == SelectSeq(Workbook(code, env.bx).TV, LAMBDA row : Truthy(row[1]))

\* C13: for every valid product processed with the create-preparation-table
\* toggle on, one row is appended for each row of the table range whose
\* first cell is non-empty, carrying the order number and the product code,
\* whether or not the preparation PDF was produced, also when the
\* preparation job had no data.
C13_RowsAlwaysExtracted ==
  (Classified /\ env.cfg.create_preparation_excel = "True") =>
    /\ Len(obs.proc.extracted) = Len(TableRows(obs.proc.product_code))
    /\ \A i \in 1..Len(obs.proc.extracted) :
         /\ obs.proc.extracted[i][1] = obs.proc.order_num
         /\ obs.proc.extracted[i][2] = obs.proc.product_code
         /\ obs.proc.extracted[i][3] = TableRows(obs.proc.product_code)[i][1]

\* one of the four configured paths is the empty string
AnyPathEmpty ==
  \E key \in {"order_file_path", "database_file_path", "output_base_path",
              "order_pdf_source_path"} : env.cfg[key] = <<>>

\* C14: when one of the four configured paths is an empty string, the run
\* ends with the 'paths not set' error before it reads the order source,
\* creates a folder or opens the oracle.
C14_EmptyPathAborts ==
  (AnyPathEmpty /\ pc \notin {"idle", "run"}) =>
    /\ pc = "finally"
    /\ obs.signals = <<"error_paths_not_set">>
    /\ w.filtered = <<>> /\ fs.folders = {} /\ obs.ops = 0
    /\ ~ora.app /\ obs.opened = 0

\* C15: the sub-component codes still to be processed for a variant are
\* distinct TS-<digits> / TF-<digits> codes, where codes that differ only in
\* letter case are the same code, in ascending order: none is processed
\* twice for the variant.
C15_SubComponentsOncePerCode ==
  pc = "sub" =>
    \A i \in 1..Len(w.sub_components) : \A j \in 1..Len(w.sub_components) :
      i < j => /\ upper(w.sub_components[i]) # upper(w.sub_components[j])
               /\ StrLess(w.sub_components[i], w.sub_components[j])

RECURSIVE LineCallsBound(_)
\* the sum over the variants of an order line of 1 + the number of
\* sub-component codes found for the variant
LineCallsBound(variants) ==
  IF variants = <<>> THEN 0
  ELSE 1 + Len(ScanBom(Head(variants))) + LineCallsBound(Tail(variants))

\* what is left of the loops of an order: the lines, the variants of the
\* line, the sub-components of the variant
Work == <<Len(w.lines), Len(w.valid_product_codes), Len(w.sub_components)>>

LexLess(a, b) ==
  \/ a[1] < b[1]
  \/ a[1] = b[1] /\ a[2] < b[2]
  \/ a[1] = b[1] /\ a[2] = b[2] /\ a[3] < b[3]

\* C16: the expansion of sub-components is one level deep.  A step for a
\* sub-component scans nothing and only shortens the list of the variant;
\* the calls of _process_product for an order line are at most the sum over
\* its variants of 1 + the sub-components found for the variant; and the
\* processing of an order terminates: each step of its loops goes on to the
\* finalization, ends the batch with an exception, or leaves strictly less
\* work (lines, then variants, then sub-components).
C16_OneLevelAndTerminates ==
  [][/\ obs'.line_procs <= LineCallsBound(obs'.resolve.found)
     /\ pc = "sub" => /\ w'.sub_components = Tail(w.sub_components)
                      /\ w'.valid_product_codes = w.valid_product_codes
                      /\ obs'.line_procs = obs.line_procs + 1
     /\ pc \in {"line", "variant", "sub"} =>
          \/ pc' \in {"cleanup", "except"}
          \/ pc' \in {"line", "variant", "sub"} /\ LexLess(Work', Work)]_vars

\* a sub-component with a bill of materials of its own (TS-1 names TS-9) was
\* processed for AX, and the line ended with 1 + 3 calls
C16_SubWithOwnBom ==
  /\ pc = "line"
  /\ obs.resolve.found = <<AX>>
  /\ obs.proc.product_code = <<"t", "s", "-", "1">>
  /\ ScanBom(obs.proc.product_code) # <<>>
  /\ obs.line_procs = 4

\* a column of the sheet holds a number
HasNumber(values) == \E i \in 1..Len(values) : values[i].k = "num"

\* the data of a standard job is on the sheet: the probe cell of the timing
\* and of the preparation job is not empty, and the column of the job holds
\* a number
DataPresent(suffix, sheet) ==
  CASE suffix = LOM -> HasNumber(sheet.B)
    [] suffix = TimingSuffix -> sheet.P9 # None /\ HasNumber(sheet.N)
    [] suffix = PrepSuffix -> sheet.U5 # None /\ HasNumber(sheet.S)

\* the toggle of a standard job is on; the LOM job has none
GateOpen(suffix) ==
  CASE suffix = LOM -> TRUE
    [] suffix = TimingSuffix -> env.cfg.print_timing_pdf = "True"
    [] suffix = PrepSuffix -> env.cfg.print_preparation_pdf = "True"

\* C17: in a call of _process_product that ran to its end for a valid
\* product, a standard job (LOM, timing, preparation) is exported if and
\* only if its data is present and its toggle is on; the LOM job has no
\* toggle, the timing and the preparation job each depend on their own
\* toggle only.
C17_ExportedIffDataAndGate ==
  Classified =>
    \A suffix \in {LOM, TimingSuffix, PrepSuffix} :
      (suffix \in Range(obs.proc.printed)) <=>
        (DataPresent(suffix, Workbook(obs.proc.product_code, env.bx)) /\ GateOpen(suffix))

\* AX has the data of all three jobs; with the timing toggle off and the
\* preparation toggle on, LOM and preparation were exported
C17_TimingOffOnly ==
  /\ Classified
  /\ obs.proc.product_code = AX
  /\ env.cfg.print_timing_pdf = "False"
  /\ env.cfg.print_preparation_pdf = "True"
  /\ DataPresent(TimingSuffix, Workbook(AX, env.bx))
  /\ obs.proc.printed = <<LOM, PrepSuffix>>

\* the paths appended to a merge target, in the order of the appends
MergedPaths(merger) == [i \in 1..Len(merger) |-> merger[i].path]

\* the registry restricted to the paths of a merge target
RegisteredOf(merger) ==
  SelectSeq(w.files_to_delete, LAMBDA p : p \in Range(MergedPaths(merger)))

\* the merge target the name of a generated document belongs to
TargetOf(path) ==
  IF endswith(basename(path), <<"_">> \o TimingSuffix \o DotPdf) THEN "timing"
  ELSE IF endswith(basename(path), <<"_">> \o PrepSuffix \o DotPdf) THEN "preparation"
  ELSE "main"

\* C18: while an order is processed, the documents generated for it are in
\* the merge target of their job type (timing documents in the timing
\* target, preparation documents in the preparation target, LOM documents,
\* conditional sheets, drawing copies and the order PDF in the main target),
\* each target holds them in the order of generation, and the registry of
\* temporary files holds the same paths: what is appended is registered and
\* what is registered is appended, to one target only.
C18_AppendedIffRegistered ==
  pc \in {"line", "variant", "sub", "except"} =>
    /\ RegisteredOf(w.main_merger) = MergedPaths(w.main_merger)
    /\ RegisteredOf(w.preparation_merger) = MergedPaths(w.preparation_merger)
    /\ RegisteredOf(w.timing_merger) = MergedPaths(w.timing_merger)
    /\ Len(w.files_to_delete) =
         Len(w.main_merger) + Len(w.preparation_merger) + Len(w.timing_merger)
    /\ \A p \in Range(MergedPaths(w.main_merger)) : TargetOf(p) = "main"
    /\ \A p \in Range(MergedPaths(w.preparation_merger)) : TargetOf(p) = "preparation"
    /\ \A p \in Range(MergedPaths(w.timing_merger)) : TargetOf(p) = "timing"
    /\ \A i \in 1..Len(obs.exports) :
         obs.exports[i].path[1] = w.order_num_str =>
           obs.exports[i].path \in Range(w.files_to_delete)

\* an order line of AX is done: the order PDF, the LOM document, the MF
\* sheet and the drawing copy are in the main target, and the timing and
\* the preparation target hold a document each
C18_AllTargetsFilled ==
  /\ pc = "line"
  /\ w.original_order_filename # NoName
  /\ {Path(w.order_num_str, w.original_order_filename),
      Path(w.order_num_str, AX \o <<"_">> \o LOM \o DotPdf),
      Path(w.order_num_str, AX \o <<"_">> \o MF_SHEET_NAME \o DotPdf),
      Path(w.order_num_str, AX \o <<"_", "drawing">> \o DotPdf)}
       \subseteq Range(MergedPaths(w.main_merger))
  /\ Path(w.order_num_str, AX \o <<"_">> \o PrepSuffix \o DotPdf)
       \in Range(MergedPaths(w.preparation_merger))
  /\ Path(w.order_num_str, AX \o <<"_">> \o TimingSuffix \o DotPdf)
       \in Range(MergedPaths(w.timing_merger))

\* C19: every export of a call of _process_product is made while the oracle
\* holds the product code of the call (the file {code}_{suffix}.pdf is
\* exported under that code), the validity of the product is read under
\* that code, and after the call for a variant the oracle holds the order
\* number, the quantity and the code of the variant when the BOM range is
\* scanned, before a sub-component is primed.
C19_ExportedWhilePrimed ==
  [][/\ \A i \in 1..Len(obs'.exports) :
          basename(obs'.exports[i].path) =
            obs'.exports[i].primed \o <<"_">> \o obs'.exports[i].what \o DotPdf
     /\ (pc = "variant" /\ pc' # "except") =>
          /\ ora'.cells = [order |-> w.order_num_str, quantity |-> w.quantity,
                           product |-> Head(w.valid_product_codes)]
          /\ w'.sub_components = ScanBom(Head(w.valid_product_codes))
          /\ obs'.proc.valid =
               ~IsEmptyCheck(Workbook(Head(w.valid_product_codes), env.bx).D1)
     /\ (pc = "sub" /\ pc' # "except") =>
          /\ ora'.cells = [order |-> w.order_num_str, quantity |-> w.quantity,
                           product |-> Head(w.sub_components)]
          /\ obs'.proc.valid =
               ~IsEmptyCheck(Workbook(Head(w.sub_components), env.bx).D1)]_vars

\* the documents of a variant and then those of one of its sub-components
\* were exported for the same order, each under its own code
C19_VariantThenSub ==
  /\ pc = "line"
  /\ \E i, j \in 1..Len(obs.exports) :
       /\ i < j
       /\ obs.exports[i].primed = AX
       /\ obs.exports[j].primed = TS1
       /\ obs.exports[i].path[1] = obs.exports[j].path[1]
  /\ ora.cells.product # AX

\* the first n characters of a code, in upper case
CodeHead(code, n) == upper(SubSeq(code, 1, IF Len(code) < n THEN Len(code) ELSE n))

\* C20: a product whose code starts with TS- or TF-, in any letter case, is
\* classified TS or TF whatever the type cell of the oracle holds; every
\* other product is classified by the first two characters, in upper case,
\* of the text of the type cell.
C20_ClassifiedInTwoSteps ==
  Classified =>
    LET code == obs.proc.product_code
        type_cell == str(Workbook(code, env.bx).D3)
    IN  /\ CodeHead(code, 3) = <<"T", "S", "-">> => obs.proc.product_type = <<"T", "S">>
        /\ CodeHead(code, 3) = <<"T", "F", "-">> => obs.proc.product_type = <<"T", "F">>
        /\ CodeHead(code, 3) \notin {<<"T", "S", "-">>, <<"T", "F", "-">>} =>
             obs.proc.product_type = CodeHead(type_cell, 2)

\* the sub-component written ts-1 was classified TS although its type cell
\* reads DS
C20_PrefixBeatsTypeCell ==
  /\ Classified
  /\ obs.proc.product_code = <<"t", "s", "-", "1">>
  /\ obs.proc.product_type = <<"T", "S">>
  /\ Workbook(obs.proc.product_code, env.bx).D3 = Txt(<<"D", "S">>)

\* the sheets the classifications are said to trigger
SheetsOf(product_type) ==
  CASE product_type = MF -> <<MF_SHEET_NAME>>
    [] product_type \in {DS, DF} -> <<ST_SHEET_NAME>>
    [] product_type \in {NL, DL} -> <<ST_SHEET_NAME, KL_SHEET_NAME>>
    [] OTHER -> <<>>

\* C21: the conditional sheets attempted in a call that ran to its end are
\* decided by the classification alone: the MF sheet for MF, the ST sheet
\* for DS and DF, the ST sheet and then the KL sheet for NL and DL, none
\* for any other classification; never more than two.
C21_SheetsByClassification ==
  /\ \A t \in {MF, DS, DF, NL, DL, MR, TS, TF, <<"N", "O">>, <<>>} :
       /\ [i \in 1..Len(ConditionalSheets(t)) |-> ConditionalSheets(t)[i].sheet] = SheetsOf(t)
       /\ Len(ConditionalSheets(t)) <= 2
  /\ Classified =>
       /\ obs.proc.cond_attempted = SheetsOf(obs.proc.product_type)
       /\ Len(obs.proc.cond_attempted) <= 2

\* BXA, classified NL, had the ST sheet and then the KL sheet attempted
C21_TwoSheetsChained ==
  /\ Classified
  /\ obs.proc.product_type = NL
  /\ obs.proc.cond_attempted = <<ST_SHEET_NAME, KL_SHEET_NAME>>

\* the code the next call of _process_product is made for
NextCode ==
  IF pc = "variant" THEN Head(w.valid_product_codes) ELSE Head(w.sub_components)

\* the check cell of the oracle reads 'empty' (in any letter case, with or
\* without blanks around it) once the oracle is primed with the code
CheckReadsEmpty(code) ==
  lower(strip(str(Workbook(code, env.bx).D1))) = <<"e", "m", "p", "t", "y">>

\* C22: a call of _process_product for a code (a variant or a
\* sub-component) whose check cell reads 'empty' primes the oracle and does
\* nothing else: no export, no extraction, no conditional sheet, no drawing
\* copy, and the merge targets, the registry and the preparation rows come
\* back as they were.
C22_EmptyCheckDoesNothing ==
  [][(pc \in {"variant", "sub"} /\ CheckReadsEmpty(NextCode)) =>
       /\ w'.main_merger = w.main_merger
       /\ w'.preparation_merger = w.preparation_merger
       /\ w'.timing_merger = w.timing_merger
       /\ w'.files_to_delete = w.files_to_delete
       /\ w'.preparation_excel_data = w.preparation_excel_data
       /\ fs' = fs
       /\ obs'.exports = obs.exports /\ obs'.ops = obs.ops
       /\ obs'.caught = obs.caught /\ obs'.failed = obs.failed
       /\ obs'.proc = [NewProc(NextCode, w.order_num_str) EXCEPT !.valid = FALSE]
       /\ ora'.cells.product = NextCode
       /\ pc' # "except"]_vars

\* the sub-component TF-2, whose check cell reads ' Empty ', was passed
\* over after the documents of the variant were appended
C22_InvalidSubComponent ==
  /\ obs.proc.product_code = TF2
  /\ ~obs.proc.valid
  /\ obs.line_procs >= 2
  /\ w.main_merger # <<>>
  /\ pc = "sub"

\* the name of the source order PDF without its extension and without a
\* trailing 'ok' marker, or the order number when no source PDF was found
NameAsStated(order_num_str, filename) ==
  IF filename # NoName THEN sub_ok(splitext_root(filename)) ELSE order_num_str

\* the step finalizes an order whose main merge target holds a page
FinalizesMain == pc = "line" /\ pc' = "cleanup" /\ Len(Pages(w.main_merger)) >= 1

\* C23 as stated: the main bundle is written in the order folder under the
\* name of the source order PDF without its extension and without a
\* trailing 'ok' marker, or under the order number when no source PDF was
\* found.
C23_BundleNamedAfterSource ==
  [][FinalizesMain =>
       /\ w'.final_main_pdf_path =
            Path(w.order_num_str,
                 NameAsStated(w.order_num_str, w.original_order_filename) \o DotPdf)
       /\ Exists(fs'.files, w'.final_main_pdf_path)]_vars

\* C23: the main bundle is written in the order folder under the name of
\* the source order PDF without its extension and without a trailing 'ok'
\* marker, with the blanks at both ends of what is left removed, or under
\* the order number when no source PDF was found; the file holds the pages
\* of the main merge target.
C23_BundleNamedAfterStrippedSource ==
  [][FinalizesMain =>
       /\ w'.final_main_pdf_path =
            Path(w.order_num_str,
                 strip(NameAsStated(w.order_num_str, w.original_order_filename)) \o DotPdf)
       /\ Exists(fs'.files, w'.final_main_pdf_path)
       /\ ReadFile(fs'.files, w'.final_main_pdf_path) = Pages(w.main_merger)]_vars

\* the bundle of an order whose source PDF is named 'a(1)OK.PDF' was
\* written as 'a(1).pdf'
C23_MarkerRemoved ==
  /\ pc = "cleanup"
  /\ w.original_order_filename = NameOkUpper
  /\ w.final_main_pdf_path = Path(w.order_num_str, <<"a", "(", "1", ")">> \o DotPdf)
  /\ Exists(fs.files, w.final_main_pdf_path)

\* the status messages of the cleanup of an order that give a count of
\* failed deletions
FailedCountReports(o) ==
  {i \in 1..Len(obs.orders[o].cleanup_log) :
     /\ obs.orders[o].cleanup_log[i].kind \notin {"delete_error", "deleted_total"}
     /\ obs.orders[o].cleanup_log[i].count = obs.orders[o].failed_count}

\* C24: the cleanup runs only with the delete toggle on; it goes through
\* every registered file but the final main bundle, a failed deletion does
\* not keep it from the later files, and it reports the count of the
\* deleted files and the count of the failed deletions.
C24_CleanupReportsBothCounts ==
  \A o \in Finalized :
    /\ ~env.cfg.delete_temp_files => ~obs.orders[o].cleaned
    /\ obs.orders[o].cleaned =>
         /\ \E i \in 1..Len(obs.orders[o].cleanup_log) :
              /\ obs.orders[o].cleanup_log[i].kind = "deleted_total"
              /\ obs.orders[o].cleanup_log[i].count = obs.orders[o].deleted_count
         /\ FailedCountReports(o) # {}

\* the paths of the three merge targets and of the registry
BundlePaths ==
  Range(MergedPaths(w.main_merger)) \cup Range(MergedPaths(w.preparation_merger))
    \cup Range(MergedPaths(w.timing_merger)) \cup Range(w.files_to_delete)

\* the files outside the folder of the order are as they were
OtherFoldersKept(order_num_str) ==
  \A k \in DOMAIN fs.files \cup DOMAIN fs'.files :
    k[1] # FsKey(Path(order_num_str, <<>>))[1] =>
      /\ k \in DOMAIN fs.files /\ k \in DOMAIN fs'.files
      /\ fs'.files[k] = fs.files[k]

\* C25: an order group starts with empty preparation and timing targets, no
\* preparation rows, and a main target and a registry that hold at most its
\* own source PDF; while the order is processed, finalized and cleaned up,
\* every path of its merge targets and registry lies in its own folder,
\* every preparation row carries its own order number, and the files of the
\* other orders' folders are neither written nor removed.
C25_BundlePerOrder ==
  [][/\ (pc = "order" /\ pc' = "line") =>
          /\ w'.preparation_merger = <<>> /\ w'.timing_merger = <<>>
          /\ w'.preparation_excel_data = <<>>
          /\ Len(w'.main_merger) <= 1
          /\ w'.files_to_delete = MergedPaths(w'.main_merger)
          /\ w'.final_main_pdf_path = NoPath
     /\ pc' \in {"line", "variant", "sub", "cleanup", "except"} =>
          /\ \A p \in BundlePaths' : p[1] = w'.order_num_str
          /\ \A i \in 1..Len(w'.preparation_excel_data) :
               w'.preparation_excel_data[i][1] = w'.order_num_str
     /\ pc \in {"order", "line", "variant", "sub", "cleanup"} =>
          OtherFoldersKept(w'.order_num_str)]_vars

\* the second order of a batch is being cleaned up after a first order that
\* left a bundle with preparation rows, and has rows of its own
C25_SecondOrderAfterFirst ==
  /\ pc = "cleanup"
  /\ w.order_num_str = <<"2">>
  /\ <<"1">> \in Finalized
  /\ obs.orders[<<"1">>].rows > 0
  /\ obs.orders[<<"1">>].main_docs > 0
  /\ w.preparation_excel_data # <<>>
  /\ Len(w.main_merger) > 1

\* an execution of Worker.run has ended (a blank input is refused by the
\* window and starts no worker)
RunEnded ==
  /\ pc = "idle"
  /\ obs.runs > 0
  /\ "ui_warning_empty" \notin Range(obs.signals)

\* C26: an execution of Worker.run that has ended has emitted the finished
\* signal exactly once, whichever way it ended: an early return, the normal
\* end, or an exception.
C26_FinishedExactlyOnce == RunEnded => obs.finished = 1

\* C27: in the older pipelines the merged main bundle written for an order
\* still exists after the cleanup of that order, for every source file name
\* found.  (One thread only, so that no other run touches the folder.)
C27_OldBundleSurvivesCleanup ==
  \A t \in Threads :
    ( /\ obs.clicks = 1
      /\ pc[t] \in {"close", "box", "ended"}
      /\ w[t].output_path # NoPath )
    => Exists(fs.files, w[t].output_path)

ThreadsInFlight == {t \in Threads : pc[t] \notin {"unborn", "ended"}}

\* C28: in processor0.0.12.py the start button is disabled while a
\* processing thread runs, at most one thread and one Excel session are in
\* flight, and the button is enabled again only after the thread has ended.
C28_ButtonDisabledWhileRunning ==
  env.pipeline = "processor" =>
    /\ obs.button = "normal" => ThreadsInFlight = {}
    /\ Cardinality(ThreadsInFlight) <= 1
    /\ Cardinality(ora.sessions) <= 1

Occurrences(list, x) == Cardinality({i \in 1..Len(list) : list[i] = x})

WithoutDuplicates(list) == \A x \in Range(list) : Occurrences(list, x) = 1

\* C29: the registry of the temporary files of an order never contains the
\* same path twice, whatever the order lines are.
C29_RegistryWithoutDuplicates ==
  \A o \in Finalized : WithoutDuplicates(obs.orders[o].registry)

\* C29 (as the code has it): the registry of an order may contain the path
\* of a document more than once, but it contains the path of the final main
\* bundle at most once, so that removing this path once leaves no
\* occurrence of it in the list the cleanup goes through.
C29_FinalPathRegisteredAtMostOnce ==
  \A o \in Finalized :
    /\ Occurrences(obs.orders[o].registry, obs.orders[o].final) <= 1
    /\ obs.orders[o].final # NoPath =>
         obs.orders[o].final
           \notin Range(CleanupList(obs.orders[o].registry, obs.orders[o].final))

\* C29 witness: a cleaned order whose registry held a document twice and
\* the final main bundle once.
C29_DuplicateButNotFinal ==
  \E o \in Finalized :
    /\ obs.orders[o].cleaned
    /\ ~WithoutDuplicates(obs.orders[o].registry)
    /\ Occurrences(obs.orders[o].registry, obs.orders[o].final) = 1
    /\ Exists(fs.files, obs.orders[o].final)

\* C30: the extraction and the writing of the preparation table are enabled
\* by the same state of the configuration: whenever at least one
\* preparation row was extracted for an order, the table file is written at
\* the finalization of that order, the key create_preparation_excel being
\* present or absent.
C30_ExtractedRowsAreWritten ==
  \A o \in Finalized :
    obs.orders[o].rows > 0 => "excel" \in obs.orders[o].written

====
